---------------------------- MODULE Spec2Model ----------------------------
(***************************************************************************)
(* Model of the snapshot & diff utilities of WindSurf Memory Tracker       *)
(* (src/ultis.py): generate_diff / apply_diff, is_significant_change,      *)
(* count_code_metrics, detect_code_smells, create_snapshot and             *)
(* compare_snapshots, and of the helpers of its AI client                  *)
(* (src/ai_helper.py): retry_on_error, the response cache and              *)
(* call_local_model.                                                       *)
(*                                                                         *)
(* A Python str is a sequence of one-character strings, a list of lines a  *)
(* sequence of such sequences.  Python indices are kept 0-based in the     *)
(* definitions that carry them (line_idx, i1, i2, ...) and converted where *)
(* a sequence is read.                                                     *)
(***************************************************************************)
EXTENDS Integers, Sequences, FiniteSets, TLC

VARIABLES
    pc,             \* the scenario being run and the position reached in it
    original,       \* the old text given to generate_diff and apply_diff
    modified,       \* the new text given to generate_diff
    diff,           \* the diff text returned by generate_diff
    reconstructed,  \* the outcome of apply_diff(original, diff)
    sig_old,        \* is_significant_change: old_content
    sig_new,        \* is_significant_change: new_content
    threshold,      \* is_significant_change: threshold, as <<numerator, denominator>>
    significant,    \* the value returned by is_significant_change
    content,        \* the source text given to count_code_metrics / detect_code_smells
    metrics,        \* the dict returned by count_code_metrics
    smells,         \* the list returned by detect_code_smells
    clock,          \* the system clock read by datetime.now() and time.time()
    files,          \* the file system: the file at each path on disk
    snap_path,      \* create_snapshot: file_path
    snap_content,   \* create_snapshot: content, None if it is to be read
    caller,         \* each thread's position in create_snapshot and its results
    cmp_old,        \* compare_snapshots: old_snapshot
    cmp_new,        \* compare_snapshots: new_snapshot
    report,         \* the dict returned by compare_snapshots
    config,         \* ai_helper.config
    wrapper,        \* the locals and the outcome of a retry_on_error wrapper
    side_effect,    \* what the wrapped mock function does at each call
    call_count,     \* the calls of the wrapped function so far
    response_cache, \* ai_helper.response_cache
    calls,          \* the calls of the cache functions so far, with their results
    prompt,         \* call_local_model: prompt
    responses,      \* what requests.post does at each request
    request_count,  \* the requests made so far
    tasks,          \* MainWindow.tasks: the status of each task
    board,          \* the task cards of each Kanban column, in layout order
    event,          \* the last drop event handled, with its outcome
    moves_started,  \* the number of server updates started by move_task
    patch_original, \* apply_diff's original_content
    patch_diff,     \* apply_diff's diff_content
    patch_lines,    \* diff_lines[start_idx:], the lines apply_diff loops over
    patch_i,        \* the number of those lines handled so far
    patch_st,       \* result_lines and line_idx now, and whether an exception was raised
    patch_prev,     \* result_lines and line_idx before the last line handled
    patch_result,   \* what apply_diff returned, or that it raised
    run_pc,         \* the position of the worker's thread in Worker.run
    is_running,     \* Worker._is_running
    signals,        \* the signals emitted by the current run, in order, with their argument
    interruption,   \* QThread.isInterruptionRequested() of the worker's thread
    fn_progress,    \* whether fn takes a progress_callback
    fn_outcome,     \* what the call of fn did in the current run
    escaped,        \* the class of the exception that leaves run, if any
    runs,           \* the number of runs started
    callbacks,      \* WindSurfAPIClient._callbacks: the callbacks of each event, in registration order
    registered,     \* the number of callbacks registered so far
    notify_pc,      \* the position of the notifying thread in a _notify method
    notify_event,   \* the event of the notification under way or last ended
    notify_i,       \* the callbacks the loop of the notification has passed
    notify_before,  \* the number of callbacks of the event when the notification started
    invoked,        \* the callbacks called by the notification, in order
    notify_raised   \* the class of the exception that left the notification, if any

diffVars == <<original, modified, diff, reconstructed>>
sigVars == <<sig_old, sig_new, threshold, significant>>
codeVars == <<content, metrics, smells>>

snapVars == <<clock, files, snap_path, snap_content, caller>>
compareVars == <<cmp_old, cmp_new, report>>
retryVars == <<wrapper, side_effect, call_count>>
cacheVars == <<response_cache, calls>>
localVars == <<prompt, responses, request_count>>
aiVars == <<config, retryVars, cacheVars, localVars>>
kanbanVars == <<tasks, board, event, moves_started>>
replayVars == <<patch_original, patch_diff, patch_lines, patch_i, patch_st, patch_prev, patch_result>>
workerVars == <<run_pc, is_running, signals, interruption, fn_progress, fn_outcome, escaped, runs>>
clientVars == <<callbacks, registered, notify_pc, notify_event, notify_i, notify_before, invoked, notify_raised>>
uiVars == <<kanbanVars, replayVars, workerVars, clientVars>>

vars == <<pc, diffVars, sigVars, codeVars, snapVars, compareVars, aiVars, uiVars>>

NotApplied == [raised |-> FALSE, value |-> << >>]

\* the variables of a function that the scenario does not call
DiffIdle ==
    original = << >> /\ modified = << >> /\ diff = << >> /\ reconstructed = NotApplied

SigIdle ==
    sig_old = << >> /\ sig_new = << >> /\ threshold = <<0, 1>> /\ significant = FALSE

\* the dict count_code_metrics returns for empty content
ZeroMetrics ==
    [total_lines |-> 0, code_lines |-> 0, comment_lines |-> 0, blank_lines |-> 0,
     docstring_lines |-> 0, function_count |-> 0, class_count |-> 0,
     import_count |-> 0, todo_count |-> 0, max_line_length |-> 0,
     avg_line_length |-> 0, comment_ratio |-> 0]

CodeIdle == content = << >> /\ metrics = ZeroMetrics /\ smells = << >>

\* Python's None where a str (a sequence of one-character strings) or bytes
\* may stand
None == <<"None">>

\* Python's None where an instant or a count, never negative, may stand
NoneInt == -1

\* the dict {}
EmptyDict == << >>

\* a thread that has not called yet
NotCalled ==
    [pc |-> "call", text |-> << >>, file_time |-> NoneInt,
     snapshot |-> EmptyDict, report |-> EmptyDict]

\* create_snapshot is not called
SnapCallsIdle ==
    files = << >> /\ snap_path = << >> /\ snap_content = << >> /\ caller = << >>

SnapIdle == SnapCallsIdle /\ clock = 0

CompareIdle == cmp_old = EmptyDict /\ cmp_new = EmptyDict /\ report = EmptyDict

\* AIConfig.retries, AIConfig.backoff_factor and AIConfig.cache_ttl
DefaultRetries == 2
DefaultBackoffFactor == 2
DefaultCacheTtl == 3600

\* config = AIConfig(), with the fields the modelled functions read
DefaultConfig ==
    [retries |-> DefaultRetries, backoff_factor |-> DefaultBackoffFactor,
     cache_enabled |-> TRUE, cache_ttl |-> DefaultCacheTtl]

RetryIdle ==
    /\ wrapper = EmptyDict
    /\ side_effect = << >>
    /\ call_count = 0

CacheIdle == response_cache = EmptyDict /\ calls = << >>

LocalIdle == prompt = << >> /\ responses = << >> /\ request_count = 0

\* the main window is not built
KanbanIdle == tasks = << >> /\ board = << >> /\ event = << >> /\ moves_started = 0

\* apply_diff is not being replayed line by line
ReplayIdle ==
    /\ patch_original = << >> /\ patch_diff = << >> /\ patch_lines = << >>
    /\ patch_i = 0 /\ patch_st = << >> /\ patch_prev = << >>
    /\ patch_result = NotApplied

\* no Worker is made
WorkerIdle ==
    /\ run_pc = "" /\ is_running = FALSE /\ signals = << >>
    /\ interruption = FALSE /\ fn_progress = FALSE /\ fn_outcome = ""
    /\ escaped = "" /\ runs = 0

\* no API client is made
ClientIdle ==
    /\ callbacks = << >> /\ registered = 0 /\ notify_pc = "" /\ notify_event = ""
    /\ notify_i = 0 /\ notify_before = 0 /\ invoked = << >> /\ notify_raised = ""

\* the other user-interface parts while only the Kanban board runs
KanbanRestIdle == ReplayIdle /\ WorkerIdle /\ ClientIdle

kanbanRestVars == <<replayVars, workerVars, clientVars>>

\* the other user-interface parts while only the replay of a diff runs
ReplayRestIdle == KanbanIdle /\ WorkerIdle /\ ClientIdle

replayRestVars == <<kanbanVars, workerVars, clientVars>>

\* the other user-interface parts while only a Worker runs
WorkerRestIdle == KanbanIdle /\ ReplayIdle /\ ClientIdle

workerRestVars == <<kanbanVars, replayVars, clientVars>>

\* the other user-interface parts while only the API client runs
ClientRestIdle == KanbanIdle /\ ReplayIdle /\ WorkerIdle

clientRestVars == <<kanbanVars, replayVars, workerVars>>

UiIdle == KanbanIdle /\ ReplayIdle /\ WorkerIdle /\ ClientIdle

AiIdle == config = DefaultConfig /\ RetryIdle /\ CacheIdle /\ LocalIdle

\* the variables of the snapshot, AI and user-interface parts, none of them called
OthersIdle == SnapIdle /\ CompareIdle /\ AiIdle /\ UiIdle

otherVars == <<snapVars, compareVars, aiVars, uiVars>>

-----------------------------------------------------------------------------
(* Bounds of the explored inputs *)

\* longest list of lines enumerated exhaustively for the diff engine
MaxLines == 3

\* longest string given to is_significant_change
MaxChars == 3

\* longest list of lines given to count_code_metrics
MaxMetricLines == 3

\* longest list of short lines given to detect_code_smells
MaxSmellLines == 2

-----------------------------------------------------------------------------
(* Python str / list primitives *)

Max(x, y) == IF x >= y THEN x ELSE y
Min(x, y) == IF x <= y THEN x ELSE y

\* s.startswith(p)
StartsWith(s, p) == Len(s) >= Len(p) /\ SubSeq(s, 1, Len(p)) = p

\* s.endswith(p)
EndsWith(s, p) == Len(s) >= Len(p) /\ SubSeq(s, Len(s) - Len(p) + 1, Len(s)) = p

\* the line boundaries of str.splitlines() that the modelled alphabets can hold
IsLineBreak(c) == c \in {"\n", "\r"}

\* the pieces that the line boundaries cut s[lo..hi] into, the piece before
\* the first boundary and the piece after the last one included; "\r\n" is
\* one boundary.  (Halving keeps the evaluation shallow on long texts.)
RECURSIVE Pieces(_, _, _)
Pieces(s, lo, hi) ==
    IF lo = hi
    THEN IF s[lo] = "\n" /\ lo > 1 /\ s[lo - 1] = "\r" THEN << << >> >>
         ELSE IF IsLineBreak(s[lo]) THEN << << >>, << >> >>
         ELSE << <<s[lo]>> >>
    ELSE LET mid == (lo + hi) \div 2
             l == Pieces(s, lo, mid)
             r == Pieces(s, mid + 1, hi)
         IN  SubSeq(l, 1, Len(l) - 1) \o <<l[Len(l)] \o r[1]>> \o Tail(r)

\* str.splitlines(): the lines without their terminators; a final terminator
\* opens no further (empty) line
SplitLines(s) ==
    IF s = << >> THEN << >>
    ELSE LET p == Pieces(s, 1, Len(s))
         IN  IF IsLineBreak(s[Len(s)]) THEN SubSeq(p, 1, Len(p) - 1) ELSE p

\* '\n'.join(lines)
RECURSIVE JoinLines(_)
JoinLines(lines) ==
    IF lines = << >> THEN << >>
    ELSE IF Len(lines) = 1 THEN lines[1]
    ELSE LET mid == Len(lines) \div 2
         IN  JoinLines(SubSeq(lines, 1, mid)) \o <<"\n">>
                 \o JoinLines(SubSeq(lines, mid + 1, Len(lines)))

\* a[i1:i2] for 0 <= i1, i2 (Python slice, 0-based, end exclusive)
Slice(a, i1, i2) == SubSeq(a, i1 + 1, Min(i2, Len(a)))

\* [prefix + line for line in lines]
Prefixed(prefix, lines) == [k \in 1..Len(lines) |-> <<prefix>> \o lines[k]]

Digit(d) == <<"0", "1", "2", "3", "4", "5", "6", "7", "8", "9">>[d + 1]

IsDigit(c) == c \in {"0", "1", "2", "3", "4", "5", "6", "7", "8", "9"}

DigitValue(c) == CHOOSE d \in 0..9 : Digit(d) = c

\* '{}'.format(n) for n >= 0
RECURSIVE FormatInt(_)
FormatInt(n) ==
    IF n < 10 THEN <<Digit(n)>>
    ELSE FormatInt(n \div 10) \o <<Digit(n % 10)>>


LowerLetters ==
    <<"a", "b", "c", "d", "e", "f", "g", "h", "i", "j", "k", "l", "m",
      "n", "o", "p", "q", "r", "s", "t", "u", "v", "w", "x", "y", "z">>

UpperLetters ==
    <<"A", "B", "C", "D", "E", "F", "G", "H", "I", "J", "K", "L", "M",
      "N", "O", "P", "Q", "R", "S", "T", "U", "V", "W", "X", "Y", "Z">>

Range(f) == {f[k] : k \in DOMAIN f}

\* the whitespace of str.strip() and of \s that a line can hold
IsSpace(c) == c \in {" ", "\t", "\f"}

\* \w of the re module, over the ASCII characters
IsWordChar(c) == c \in Range(LowerLetters) \cup Range(UpperLetters) \cup {"_"} \/ IsDigit(c)

\* 1-based index just after the run of whitespace of s that starts at k (\s*)
SkipSpace(s, k) ==
    LET rest == {j \in k..Len(s) : ~IsSpace(s[j])}
    IN  IF rest = {} THEN Max(k, Len(s) + 1)
        ELSE CHOOSE j \in rest : \A m \in rest : j <= m

\* 1-based index just after the run of word characters of s that starts at k (\w*)
RECURSIVE SkipWord(_, _)
SkipWord(s, k) ==
    IF k <= Len(s) /\ IsWordChar(s[k]) THEN SkipWord(s, k + 1) ELSE k

\* 1-based index of the last character of s that is not whitespace, 0 if none
LastNonSpace(s) ==
    LET rest == {j \in 1..Len(s) : ~IsSpace(s[j])}
    IN  IF rest = {} THEN 0
        ELSE CHOOSE j \in rest : \A m \in rest : m <= j

\* s.strip()
Strip(s) == SubSeq(s, SkipSpace(s, 1), LastNonSpace(s))

\* s.lstrip()
LStrip(s) == SubSeq(s, SkipSpace(s, 1), Len(s))

\* s.upper(), over the ASCII letters
Upper(s) ==
    [k \in 1..Len(s) |->
        IF s[k] \in Range(LowerLetters)
        THEN UpperLetters[CHOOSE n \in 1..26 : LowerLetters[n] = s[k]]
        ELSE s[k]]

\* s has the literal lit at 1-based index k
HasAt(s, k, lit) == k + Len(lit) - 1 <= Len(s) /\ SubSeq(s, k, k + Len(lit) - 1) = lit

\* sub in s
Contains(s, sub) == \E k \in 1..(Len(s) - Len(sub) + 1) : SubSeq(s, k, k + Len(sub) - 1) = sub

-----------------------------------------------------------------------------
(* difflib.SequenceMatcher(None, a, b), as called by difflib.unified_diff   *)
(* (src/ultis.py:95) and by is_significant_change (src/ultis.py:171).       *)
(* No junk function is given and every modelled sequence is shorter than    *)
(* the 200 elements at which the "popular element" heuristic starts.        *)

\* length of the run a[i], b[j], a[i+1], b[j+1], ... of equal elements inside
\* a[..ahi), b[..bhi)   (i, j 0-based)
RECURSIVE MatchLen(_, _, _, _, _, _)
MatchLen(a, b, i, j, ahi, bhi) ==
    IF i < ahi /\ j < bhi /\ a[i + 1] = b[j + 1]
    THEN 1 + MatchLen(a, b, i + 1, j + 1, ahi, bhi)
    ELSE 0

\* SequenceMatcher.find_longest_match(alo, ahi, blo, bhi): the longest matching
\* block in a[alo:ahi], b[blo:bhi]; of the longest ones the one starting
\* earliest in a, and of those the one starting earliest in b; <<alo, blo, 0>>
\* when nothing matches
find_longest_match(a, b, alo, ahi, blo, bhi) ==
    LET starts == (alo .. (ahi - 1)) \X (blo .. (bhi - 1))
        size(p) == MatchLen(a, b, p[1], p[2], ahi, bhi)
        sizes == {size(p) : p \in starts} \cup {0}
        bestsize == CHOOSE k \in sizes : \A m \in sizes : m <= k
        best == {p \in starts : size(p) = bestsize}
        besti == CHOOSE i \in {p[1] : p \in best} : \A p \in best : i <= p[1]
        bestj == CHOOSE j \in {p[2] : p \in {q \in best : q[1] = besti}} :
                     \A p \in {q \in best : q[1] = besti} : j <= p[2]
    IN  IF bestsize = 0 THEN <<alo, blo, 0>> ELSE <<besti, bestj, bestsize>>

\* the recursion of SequenceMatcher.get_matching_blocks: the longest match of
\* the window, then the matches to its left and to its right; sorted by
\* position
RECURSIVE matching_blocks_in(_, _, _, _, _, _)
matching_blocks_in(a, b, alo, ahi, blo, bhi) ==
    LET x == find_longest_match(a, b, alo, ahi, blo, bhi)
        i == x[1]
        j == x[2]
        k == x[3]
    IN  IF k = 0 THEN << >>
        ELSE (IF alo < i /\ blo < j
              THEN matching_blocks_in(a, b, alo, i, blo, j) ELSE << >>)
             \o <<x>>
             \o (IF i + k < ahi /\ j + k < bhi
                 THEN matching_blocks_in(a, b, i + k, ahi, j + k, bhi) ELSE << >>)

\* get_matching_blocks' pass that merges adjacent blocks; cur is the block
\* being grown (<<0, 0, 0>> at the start)
RECURSIVE collapse_adjacent(_, _)
collapse_adjacent(blocks, cur) ==
    IF blocks = << >>
    THEN IF cur[3] > 0 THEN <<cur>> ELSE << >>
    ELSE LET nxt == Head(blocks)
         IN  IF cur[1] + cur[3] = nxt[1] /\ cur[2] + cur[3] = nxt[2]
             THEN collapse_adjacent(Tail(blocks), <<cur[1], cur[2], cur[3] + nxt[3]>>)
             ELSE (IF cur[3] > 0 THEN <<cur>> ELSE << >>)
                  \o collapse_adjacent(Tail(blocks), nxt)

\* SequenceMatcher.get_matching_blocks(): ends with the sentinel <<la, lb, 0>>
get_matching_blocks(a, b) ==
    collapse_adjacent(matching_blocks_in(a, b, 0, Len(a), 0, Len(b)), <<0, 0, 0>>)
        \o << <<Len(a), Len(b), 0>> >>

\* SequenceMatcher.ratio() is 2.0 * matches / length: the number of matched
\* elements (the numerator's half)
RECURSIVE matches_of(_)
matches_of(blocks) ==
    IF blocks = << >> THEN 0 ELSE Head(blocks)[3] + matches_of(Tail(blocks))

Opcode(tag, i1, i2, j1, j2) == [tag |-> tag, i1 |-> i1, i2 |-> i2, j1 |-> j1, j2 |-> j2]

\* the loop of SequenceMatcher.get_opcodes() over the matching blocks, (i, j)
\* being the position reached in a and b
RECURSIVE opcodes_from(_, _, _)
opcodes_from(blocks, i, j) ==
    IF blocks = << >> THEN << >>
    ELSE LET ai == Head(blocks)[1]
             bj == Head(blocks)[2]
             size == Head(blocks)[3]
             tag == IF i < ai /\ j < bj THEN "replace"
                    ELSE IF i < ai THEN "delete"
                    ELSE IF j < bj THEN "insert"
                    ELSE ""
         IN  (IF tag # "" THEN <<Opcode(tag, i, ai, j, bj)>> ELSE << >>)
             \o (IF size > 0
                 THEN <<Opcode("equal", ai, ai + size, bj, bj + size)>> ELSE << >>)
             \o opcodes_from(Tail(blocks), ai + size, bj + size)

get_opcodes(a, b) == opcodes_from(get_matching_blocks(a, b), 0, 0)

-----------------------------------------------------------------------------
(* difflib.unified_diff(a, b, fromfile='previous', tofile='current',        *)
(* lineterm=''), called with its default of n = 3 context lines             *)

\* the default n of difflib.unified_diff, which generate_diff does not override
ContextLines == 3

\* codes[0] and codes[-1] of get_grouped_opcodes, cut to n lines of context
trim_first(codes, n) ==
    LET c == codes[1]
    IN  IF c.tag = "equal"
        THEN <<Opcode(c.tag, Max(c.i1, c.i2 - n), c.i2, Max(c.j1, c.j2 - n), c.j2)>>
                 \o Tail(codes)
        ELSE codes

trim_last(codes, n) ==
    LET c == codes[Len(codes)]
    IN  IF c.tag = "equal"
        THEN SubSeq(codes, 1, Len(codes) - 1)
                 \o <<Opcode(c.tag, c.i1, Min(c.i2, c.i1 + n), c.j1, Min(c.j2, c.j1 + n))>>
        ELSE codes

\* the loop of get_grouped_opcodes: an equal range longer than 2n closes the
\* group; a last group that is a single equal range is not yielded
RECURSIVE group_loop(_, _, _)
group_loop(codes, group, n) ==
    IF codes = << >>
    THEN IF group # << >> /\ ~(Len(group) = 1 /\ group[1].tag = "equal")
         THEN <<group>> ELSE << >>
    ELSE LET c == Head(codes)
         IN  IF c.tag = "equal" /\ c.i2 - c.i1 > n + n
             THEN <<group \o <<Opcode(c.tag, c.i1, Min(c.i2, c.i1 + n),
                                      c.j1, Min(c.j2, c.j1 + n))>> >>
                  \o group_loop(Tail(codes),
                                <<Opcode(c.tag, Max(c.i1, c.i2 - n), c.i2,
                                         Max(c.j1, c.j2 - n), c.j2)>>, n)
             ELSE group_loop(Tail(codes), group \o <<c>>, n)

\* SequenceMatcher.get_grouped_opcodes(n)
get_grouped_opcodes(a, b, n) ==
    LET codes == IF get_opcodes(a, b) = << >>
                 THEN <<Opcode("equal", 0, 1, 0, 1)>>
                 ELSE get_opcodes(a, b)
    IN  group_loop(trim_last(trim_first(codes, n), n), << >>, n)

\* difflib._format_range_unified(start, stop): "<beginning>" alone for a range
\* of one line, "<beginning>,<length>" otherwise, an empty range being named
\* by the line before it
format_range_unified(start, stop) ==
    LET length == stop - start
    IN  IF length = 1 THEN FormatInt(start + 1)
        ELSE FormatInt(IF length = 0 THEN start ELSE start + 1)
                 \o <<",">> \o FormatInt(length)

\* '@@ -{} +{} @@'.format(file1_range, file2_range)
hunk_header(group) ==
    <<"@", "@", " ", "-">>
        \o format_range_unified(group[1].i1, group[Len(group)].i2)
        \o <<" ", "+">>
        \o format_range_unified(group[1].j1, group[Len(group)].j2)
        \o <<" ", "@", "@">>

\* the lines unified_diff yields for one opcode
opcode_lines(c, a, b) ==
    IF c.tag = "equal" THEN Prefixed(" ", Slice(a, c.i1, c.i2))
    ELSE (IF c.tag \in {"replace", "delete"}
          THEN Prefixed("-", Slice(a, c.i1, c.i2)) ELSE << >>)
         \o (IF c.tag \in {"replace", "insert"}
             THEN Prefixed("+", Slice(b, c.j1, c.j2)) ELSE << >>)

RECURSIVE group_lines(_, _, _)
group_lines(group, a, b) ==
    IF group = << >> THEN << >>
    ELSE opcode_lines(Head(group), a, b) \o group_lines(Tail(group), a, b)

RECURSIVE hunks(_, _, _)
hunks(groups, a, b) ==
    IF groups = << >> THEN << >>
    ELSE <<hunk_header(Head(groups))>> \o group_lines(Head(groups), a, b)
             \o hunks(Tail(groups), a, b)

FromFileLine == <<"-", "-", "-", " ", "p", "r", "e", "v", "i", "o", "u", "s">>
ToFileLine == <<"+", "+", "+", " ", "c", "u", "r", "r", "e", "n", "t">>

\* the lines of difflib.unified_diff: the two file lines before the first hunk,
\* nothing at all when there is no hunk
unified_diff(a, b) ==
    LET groups == get_grouped_opcodes(a, b, ContextLines)
    IN  IF groups = << >> THEN << >>
        ELSE <<FromFileLine, ToFileLine>> \o hunks(groups, a, b)

\* generate_diff(old_content, new_content)
generate_diff(old_content, new_content) ==
    JoinLines(unified_diff(SplitLines(old_content), SplitLines(new_content)))

-----------------------------------------------------------------------------
(* apply_diff (src/ultis.py:106-152) *)

IsFileLine(line) ==
    StartsWith(line, <<"+", "+", "+">>) \/ StartsWith(line, <<"-", "-", "-">>)

\* the loop that skips the header of the diff: start_idx after the scan of
\* diff_lines[i:], i 0-based
RECURSIVE header_scan(_, _, _)
header_scan(diff_lines, i, start_idx) ==
    IF i >= Len(diff_lines) THEN start_idx
    ELSE IF IsFileLine(diff_lines[i + 1])
         THEN IF i < Len(diff_lines) - 1 /\ IsFileLine(diff_lines[i + 2])
              THEN i + 2
              ELSE header_scan(diff_lines, i + 1, i + 1)
         ELSE header_scan(diff_lines, i + 1, start_idx)

\* 1-based index just after the run of digits of s that starts at k
RECURSIVE DigitsEnd(_, _)
DigitsEnd(s, k) ==
    IF k <= Len(s) /\ IsDigit(s[k]) THEN DigitsEnd(s, k + 1) ELSE k

\* int(digits)
RECURSIVE ParseInt(_)
ParseInt(digits) ==
    IF digits = << >> THEN 0
    ELSE 10 * ParseInt(SubSeq(digits, 1, Len(digits) - 1))
             + DigitValue(digits[Len(digits)])

\* re.match(r'@@ -(\d+),(\d+) \+(\d+),(\d+) @@', diff_line): whether it matches,
\* int(match.group(1)), int(match.group(3)) and the 1-based index of the last
\* character matched
match_hunk_header(diff_line) ==
    LET s1 == 5
        e1 == DigitsEnd(diff_line, s1)
        s2 == e1 + 1
        e2 == DigitsEnd(diff_line, s2)
        s3 == e2 + 2
        e3 == DigitsEnd(diff_line, s3)
        s4 == e3 + 1
        e4 == DigitsEnd(diff_line, s4)
        ok == /\ HasAt(diff_line, 1, <<"@", "@", " ", "-">>)
              /\ e1 > s1
              /\ HasAt(diff_line, e1, <<",">>)
              /\ e2 > s2
              /\ HasAt(diff_line, e2, <<" ", "+">>)
              /\ e3 > s3
              /\ HasAt(diff_line, e3, <<",">>)
              /\ e4 > s4
              /\ HasAt(diff_line, e4, <<" ", "@", "@">>)
    IN  [matched |-> ok,
         group1 |-> IF ok THEN ParseInt(SubSeq(diff_line, s1, e1 - 1)) ELSE 0,
         group3 |-> IF ok THEN ParseInt(SubSeq(diff_line, s3, e3 - 1)) ELSE 0,
         end |-> IF ok THEN e4 + 2 ELSE 0]

\* list.insert(index, x): a negative index counts from the end, and an index
\* outside the list is clamped to its ends
list_insert(lst, index, x) ==
    LET n == Len(lst)
        at == IF index < 0 THEN Max(index + n, 0) ELSE Min(index, n)
    IN  SubSeq(lst, 1, at) \o <<x>> \o SubSeq(lst, at + 1, n)

\* the 0-based position that lst[index] reads; -1 stands for IndexError
list_position(lst, index) ==
    LET n == Len(lst)
    IN  IF index >= n \/ index < 0 - n THEN 0 - 1
        ELSE IF index < 0 THEN index + n ELSE index

\* list.pop(index) for an index that list_position accepts
list_pop(lst, index) ==
    LET at == list_position(lst, index)
    IN  SubSeq(lst, 1, at) \o SubSeq(lst, at + 2, Len(lst))

\* one iteration of the loop over diff_lines[start_idx:]; st holds
\* result_lines, line_idx and whether an exception was raised
apply_line(st, diff_line) ==
    IF st.raised THEN st
    ELSE IF StartsWith(diff_line, <<"@", "@">>)
    THEN IF match_hunk_header(diff_line).matched
         THEN [st EXCEPT !.line_idx = match_hunk_header(diff_line).group3 - 1]
         ELSE st
    ELSE IF StartsWith(diff_line, <<"+">>)
    THEN [st EXCEPT !.result_lines = list_insert(st.result_lines, st.line_idx,
                                                 Tail(diff_line)),
                    !.line_idx = st.line_idx + 1]
    ELSE IF StartsWith(diff_line, <<"-">>)
    THEN IF st.line_idx < Len(st.result_lines)
         THEN IF list_position(st.result_lines, st.line_idx) < 0
              THEN [st EXCEPT !.raised = TRUE]
              ELSE IF st.result_lines[list_position(st.result_lines, st.line_idx) + 1]
                          = Tail(diff_line)
                   THEN [st EXCEPT !.result_lines =
                                       list_pop(st.result_lines, st.line_idx)]
                   ELSE st
         ELSE st
    ELSE IF ~StartsWith(diff_line, <<"\\">>)
    THEN [st EXCEPT !.line_idx = st.line_idx + 1]
    ELSE st

RECURSIVE apply_lines(_, _)
apply_lines(st, diff_lines) ==
    IF diff_lines = << >> THEN st
    ELSE apply_lines(apply_line(st, Head(diff_lines)), Tail(diff_lines))

\* apply_diff(original_content, diff_content): the string returned, or raised
\* when the replay ends in an IndexError
apply_diff(original_content, diff_content) ==
    LET diff_lines == SplitLines(diff_content)
        start_idx == header_scan(diff_lines, 0, 0)
        st == apply_lines([result_lines |-> SplitLines(original_content),
                           line_idx |-> 0, raised |-> FALSE],
                          Slice(diff_lines, start_idx, Len(diff_lines)))
    IN  [raised |-> st.raised,
         value |-> IF st.raised THEN << >> ELSE JoinLines(st.result_lines)]

-----------------------------------------------------------------------------
(* The diff engine run on a pair of texts: demo() of src/ultis.py:1146-1158 *)

\* the lines the explored texts are made of
DiffLineSet == {<<"a">>, <<"b">>}

\* every list of at most n lines of DiffLineSet
RECURSIVE LineLists(_)
LineLists(n) ==
    IF n = 0 THEN {<< >>}
    ELSE LineLists(n - 1)
         \cup {ls \o <<l>> : ls \in {x \in LineLists(n - 1) : Len(x) = n - 1},
                             l \in DiffLineSet}

\* two changed lines far enough apart for two hunks: x, then 2n+1 equal lines,
\* then y
FarApartLists ==
    {<<x>> \o [k \in 1..(2 * ContextLines + 1) |-> <<"c">>] \o <<y>> :
         x \in DiffLineSet, y \in DiffLineSet}

\* the explored texts: each list of lines, with and without a final newline
DiffTexts ==
    {JoinLines(ls) \o t : ls \in LineLists(MaxLines) \cup FarApartLists,
                          t \in {<< >>, <<"\n">>}}

InitDiff ==
    /\ pc = "diff_start"
    /\ OthersIdle
    /\ original \in DiffTexts
    /\ modified \in DiffTexts
    /\ diff = << >>
    /\ reconstructed = NotApplied
    /\ SigIdle
    /\ CodeIdle

\* diff = generate_diff(original, modified)
GenerateDiff ==
    /\ pc = "diff_start"
    /\ diff' = generate_diff(original, modified)
    /\ pc' = "diffed"
    /\ UNCHANGED <<original, modified, reconstructed, sigVars, codeVars, otherVars>>

\* reconstructed = apply_diff(original, diff)
ApplyDiff ==
    /\ pc = "diffed"
    /\ reconstructed' = apply_diff(original, diff)
    /\ pc' = "applied"
    /\ UNCHANGED <<original, modified, diff, sigVars, codeVars, otherVars>>

NextDiff == GenerateDiff \/ ApplyDiff

SpecDiff == InitDiff /\ [][NextDiff]_vars

\* the hunk header lines of a diff text
HunkHeaders(diff_content) ==
    LET ls == SplitLines(diff_content)
    IN  {ls[k] : k \in {m \in 1..Len(ls) : StartsWith(ls[m], <<"@", "@">>)}}

-----------------------------------------------------------------------------
(* Claims about the diff engine *)

\* C1: round trip: apply_diff(A, generate_diff(A, B)) returns B exactly, for
\* texts of any number of lines, with or without a final newline, one or
\* several hunks.
C1_RoundTrip ==
    pc = "applied" => ~reconstructed.raised /\ reconstructed.value = modified

\* C2: an empty side is a full add or a full delete:
\* apply_diff("", generate_diff("", B)) = B and
\* apply_diff(A, generate_diff(A, "")) = "", also for A of two or more lines.
C2_EmptySide ==
    pc = "applied" =>
        /\ original = << >> => reconstructed.value = modified
        /\ modified = << >> => reconstructed.value = << >>

\* C3: a diff text with no hunk leaves the text unchanged, character for
\* character.
C3_NoHunkUnchanged ==
    pc = "applied" /\ HunkHeaders(diff) = {} =>
        ~reconstructed.raised /\ reconstructed.value = original

\* C4: every hunk header of generate_diff's output has the exact form
\* "@@ -<start>,<len> +<start>,<len> @@", with 1-based starts.
C4_HeaderForm ==
    pc = "diffed" =>
        \A h \in HunkHeaders(diff) :
            /\ match_hunk_header(h).matched
            /\ match_hunk_header(h).end = Len(h)
            /\ match_hunk_header(h).group1 >= 1
            /\ match_hunk_header(h).group3 >= 1

-----------------------------------------------------------------------------
(* is_significant_change (src/ultis.py:155-176).  The ratio 2.0 * M / T and  *)
(* the threshold are Python floats, with the rounding of each operation.    *)

\* matcher.ratio() as <<numerator, denominator>>: 2.0 * matches / length, and
\* 1.0 when both sequences are empty
ratio(a, b) ==
    IF Len(a) + Len(b) = 0 THEN <<1, 1>>
    ELSE <<2 * matches_of(get_matching_blocks(a, b)), Len(a) + Len(b)>>

\* A Python float between 0.0 and 1.0 is the sequence of its binary digits, the
\* digit before the point first, without zeros at the end: 1.0 is <<1>>, 0.25
\* is <<0, 0, 1>>, 0.0 is << >>.  A float has MantissaBits significant digits.
MantissaBits == 53

\* the digit of x at position k, positions counted from 1
Bit(x, k) == IF k <= Len(x) THEN x[k] ELSE 0

\* x without the zeros at its end
TrimZeros(x) ==
    LET ones == {k \in 1..Len(x) : x[k] = 1}
    IN  IF ones = {} THEN << >>
        ELSE SubSeq(x, 1, CHOOSE k \in ones : \A j \in ones : j <= k)

\* the position of the first digit 1 of x, Len(x) + 1 if it has none
FirstOne(x) ==
    IF \A k \in 1..Len(x) : x[k] = 0 THEN Len(x) + 1
    ELSE CHOOSE k \in 1..Len(x) : x[k] = 1 /\ \A j \in 1..(k - 1) : x[j] = 0

\* x with one unit added at its last digit: the digits 1 at its end become 0
\* and the 0 before them becomes 1
AddUnit(x) ==
    LET zeros == {k \in 1..Len(x) : x[k] = 0}
        z == CHOOSE k \in zeros : \A j \in zeros : j <= k
    IN  [k \in 1..Len(x) |-> IF k < z THEN x[k] ELSE IF k = z THEN 1 ELSE 0]

\* the float nearest to the number with the digits x, a tie going to the float
\* with an even last digit (the rounding of every float operation)
float_round(x) ==
    LET last == FirstOne(x) + MantissaBits - 1
        kept == SubSeq(x, 1, last)
        more == \E k \in (last + 2)..Len(x) : x[k] = 1
        up == Bit(x, last + 1) = 1 /\ (more \/ x[last] = 1)
    IN  IF Len(x) <= last THEN TrimZeros(x)
        ELSE TrimZeros(IF up THEN AddUnit(kept) ELSE kept)

\* 2^k modulo d
RECURSIVE PowerOfTwoMod(_, _)
PowerOfTwoMod(k, d) ==
    IF k = 0 THEN 1 % d
    ELSE LET h == PowerOfTwoMod(k \div 2, d)
         IN  (h * h * (IF k % 2 = 1 THEN 2 ELSE 1)) % d

\* the rest of the division n / d after k digits behind the point
DivisionRest(n, d, k) == ((n % d) * PowerOfTwoMod(k, d)) % d

\* the digit of n / d at position k behind the point
DivisionDigit(n, d, k) == (2 * DivisionRest(n, d, k - 1)) \div d

\* the float n / d of the ints 0 <= n <= d, d > 0: the digits of the quotient
\* up to the one after the last digit a float keeps, followed by a 1 when the
\* division has a rest there
float_div(n, d) ==
    IF n % d = 0 THEN TrimZeros(<<n \div d>>)
    ELSE LET first == CHOOSE k \in 1..d : /\ DivisionDigit(n, d, k) = 1
                                          /\ \A j \in 1..(k - 1) :
                                                 DivisionDigit(n, d, j) = 0
             last == first + MantissaBits
             digits == [k \in 1..(last + 1) |->
                            IF k = 1 THEN 0 ELSE DivisionDigit(n, d, k - 1)]
         IN  float_round(IF DivisionRest(n, d, last) = 0 THEN digits
                         ELSE digits \o <<1>>)

\* the float 1.0 - x: the digits of the exact difference, rounded
float_one_minus(x) ==
    IF x = << >> THEN <<1>>
    ELSE IF x[1] = 1 THEN << >>
    ELSE float_round([k \in 1..Len(x) |-> IF k = 1 THEN 0
                                           ELSE IF k = Len(x) THEN 1
                                           ELSE 1 - x[k]])

\* x > y for two floats
float_gt(x, y) ==
    \E k \in 1..Len(x) :
        /\ x[k] > Bit(y, k)
        /\ \A j \in 1..(k - 1) : x[j] = Bit(y, j)

\* is_significant_change with ">=" for ">" in the comparison with the threshold
is_significant_change_ge(old_content, new_content, t) ==
    IF old_content = << >> \/ new_content = << >> THEN TRUE
    ELSE LET r == ratio(old_content, new_content)
             change_ratio == float_one_minus(float_div(r[1], r[2]))
         IN  ~float_gt(float_div(t[1], t[2]), change_ratio)

\* is_significant_change(old_content, new_content, threshold), threshold being
\* the float t[1] / t[2] with 0 <= t[1] <= t[2]
is_significant_change(old_content, new_content, t) ==
    IF old_content = << >> \/ new_content = << >> THEN TRUE
    ELSE LET r == ratio(old_content, new_content)
             change_ratio == float_one_minus(float_div(r[1], r[2]))
         IN  float_gt(change_ratio, float_div(t[1], t[2]))

\* every string of at most n characters of {"a", "b"}
RECURSIVE Strings(_)
Strings(n) ==
    IF n = 0 THEN {<< >>}
    ELSE Strings(n - 1)
         \cup {s \o <<c>> : s \in {x \in Strings(n - 1) : Len(x) = n - 1},
                            c \in {"a", "b"}}

\* the default threshold of is_significant_change, 0.05
DefaultThreshold == <<5, 100>>

\* the thresholds explored: 0, the default, 1/4, 1/2 and 1
Thresholds == {<<0, 1>>, DefaultThreshold, <<1, 4>>, <<1, 2>>, <<1, 1>>}

\* two texts of 1 / 0.05 = 20 characters that differ in their last character
\* only: 19 of the 20 characters match, and 1 - 2 * 19 / 40 is 0.05
BoundaryOld == [k \in 1..(DefaultThreshold[2] \div DefaultThreshold[1]) |-> "a"]
BoundaryNew == [BoundaryOld EXCEPT ![Len(BoundaryOld)] = "b"]

\* the texts classified
SigTexts == Strings(MaxChars) \cup {BoundaryOld, BoundaryNew}

InitSignificant ==
    /\ pc = "significant_start"
    /\ OthersIdle
    /\ sig_old \in SigTexts
    /\ sig_new \in SigTexts
    /\ threshold \in Thresholds
    /\ significant = FALSE
    /\ DiffIdle
    /\ CodeIdle

\* significant = is_significant_change(sig_old, sig_new, threshold)
IsSignificantChange ==
    /\ pc = "significant_start"
    /\ significant' = is_significant_change(sig_old, sig_new, threshold)
    /\ pc' = "classified"
    /\ UNCHANGED <<sig_old, sig_new, threshold, diffVars, codeVars, otherVars>>

NextSignificant == IsSignificantChange

SpecSignificant == InitSignificant /\ [][NextSignificant]_vars

\* C6: is_significant_change is True whenever old or new is empty (also when
\* both are), and False when old = new and both are non-empty, for every
\* threshold >= 0.
C6_EmptyOrEqual ==
    pc = "classified" =>
        /\ (sig_old = << >> \/ sig_new = << >>) => significant
        /\ (sig_old = sig_new /\ sig_old # << >>) => ~significant

\* C6 witness: equal non-empty strings were classified as not significant at
\* threshold 0
C6_Witness ==
    /\ pc = "classified"
    /\ sig_old = sig_new /\ Len(sig_old) >= 2
    /\ threshold = <<0, 1>>
    /\ ~significant

-----------------------------------------------------------------------------
(* count_code_metrics (src/ultis.py:494-603).                                *)

TripleDouble == <<"\"", "\"", "\"">>
TripleSingle == <<"'", "'", "'">>

\* re.match(r'^\s*def\s+\w+\s*\(', line)
matches_def(line) ==
    LET k1 == SkipSpace(line, 1)
        k2 == SkipSpace(line, k1 + 3)
        k3 == SkipWord(line, k2)
        k4 == SkipSpace(line, k3)
    IN  /\ HasAt(line, k1, <<"d", "e", "f">>)
        /\ k2 > k1 + 3
        /\ k3 > k2
        /\ HasAt(line, k4, <<"(">>)

\* re.match(r'^\s*class\s+\w+', line)
matches_class(line) ==
    LET k1 == SkipSpace(line, 1)
        k2 == SkipSpace(line, k1 + 5)
    IN  /\ HasAt(line, k1, <<"c", "l", "a", "s", "s">>)
        /\ k2 > k1 + 5
        /\ SkipWord(line, k2) > k2

\* re.match(r'^\s*import\s+|^\s*from\s+\w+\s+import', line)
matches_import(line) ==
    LET k1 == SkipSpace(line, 1)
        f2 == SkipSpace(line, k1 + 4)
        f3 == SkipWord(line, f2)
        f4 == SkipSpace(line, f3)
    IN  \/ HasAt(line, k1, <<"i", "m", "p", "o", "r", "t">>) /\ SkipSpace(line, k1 + 6) > k1 + 6
        \/ /\ HasAt(line, k1, <<"f", "r", "o", "m">>)
           /\ f2 > k1 + 4
           /\ f3 > f2
           /\ f4 > f3
           /\ HasAt(line, f4, <<"i", "m", "p", "o", "r", "t">>)

\* a docstring closed by a line that ends with either delimiter
closes_docstring_any(stripped, docstring_delimiter) ==
    EndsWith(stripped, TripleDouble) \/ EndsWith(stripped, TripleSingle)

\* stripped.endswith(docstring_delimiter)
closes_docstring(stripped, docstring_delimiter) ==
    EndsWith(stripped, docstring_delimiter)

\* count_line without the "continue" of the blank-line branch: a blank line
\* inside a docstring is counted as a docstring line too
count_line_blank_falls_through(st, line) ==
    LET stripped == Strip(line)
        st1 == [st EXCEPT !.max_line_length = Max(st.max_line_length, Len(line))]
    IN  IF stripped = << >>
        THEN [st1 EXCEPT !.blank_lines = @ + 1,
                         !.docstring_lines = IF st.in_docstring THEN @ + 1 ELSE @]
        ELSE IF st.in_docstring
        THEN [st1 EXCEPT !.docstring_lines = @ + 1,
                         !.in_docstring = ~closes_docstring(stripped, st.docstring_delimiter)]
        ELSE IF StartsWith(stripped, TripleDouble) \/ StartsWith(stripped, TripleSingle)
        THEN [st1 EXCEPT !.docstring_lines = @ + 1,
                         !.docstring_delimiter = SubSeq(stripped, 1, 3),
                         !.in_docstring =
                             ~(Len(stripped) > 3
                                   /\ closes_docstring(stripped, SubSeq(stripped, 1, 3)))]
        ELSE IF StartsWith(stripped, <<"#">>)
        THEN [st1 EXCEPT !.comment_lines = @ + 1,
                         !.todo_count =
                             IF Contains(Upper(stripped), <<"T", "O", "D", "O">>) THEN @ + 1 ELSE @]
        ELSE IF matches_def(line)
        THEN [st1 EXCEPT !.function_count = @ + 1]
        ELSE IF matches_class(line)
        THEN [st1 EXCEPT !.class_count = @ + 1]
        ELSE IF matches_import(line)
        THEN [st1 EXCEPT !.import_count = @ + 1]
        ELSE st1

\* one iteration of the loop over the lines; st holds the counters,
\* in_docstring and docstring_delimiter
count_line(st, line) ==
    LET stripped == Strip(line)
        st1 == [st EXCEPT !.max_line_length = Max(st.max_line_length, Len(line))]
    IN  IF stripped = << >>
        THEN [st1 EXCEPT !.blank_lines = @ + 1]
        ELSE IF st.in_docstring
        THEN [st1 EXCEPT !.docstring_lines = @ + 1,
                         !.in_docstring = ~closes_docstring(stripped, st.docstring_delimiter)]
        ELSE IF StartsWith(stripped, TripleDouble) \/ StartsWith(stripped, TripleSingle)
        THEN [st1 EXCEPT !.docstring_lines = @ + 1,
                         !.docstring_delimiter = SubSeq(stripped, 1, 3),
                         !.in_docstring =
                             ~(Len(stripped) > 3
                                   /\ closes_docstring(stripped, SubSeq(stripped, 1, 3)))]
        ELSE IF StartsWith(stripped, <<"#">>)
        THEN [st1 EXCEPT !.comment_lines = @ + 1,
                         !.todo_count =
                             IF Contains(Upper(stripped), <<"T", "O", "D", "O">>) THEN @ + 1 ELSE @]
        ELSE IF matches_def(line)
        THEN [st1 EXCEPT !.function_count = @ + 1]
        ELSE IF matches_class(line)
        THEN [st1 EXCEPT !.class_count = @ + 1]
        ELSE IF matches_import(line)
        THEN [st1 EXCEPT !.import_count = @ + 1]
        ELSE st1

RECURSIVE count_lines(_, _)
count_lines(st, lines) ==
    IF lines = << >> THEN st
    ELSE count_lines(count_line(st, Head(lines)), Tail(lines))

\* sum(line_lengths)
RECURSIVE SumLengths(_)
SumLengths(lines) ==
    IF lines = << >> THEN 0 ELSE Len(Head(lines)) + SumLengths(Tail(lines))

\* round(p / q, 2), in hundredths.  round() rounds the double nearest to p / q,
\* which is the rounding of p / q itself wherever p / q is not halfway
\* between two hundredths; that takes a q divisible by 8, and a halfway
\* double is rounded to the even hundredth.
round2(p, q) ==
    LET fl == (100 * p) \div q
        r == (100 * p) % q
    IN  IF 2 * r > q THEN fl + 1
        ELSE IF 2 * r < q THEN fl
        ELSE IF fl % 2 = 0 THEN fl ELSE fl + 1

\* count_code_metrics counting every line that matches the def pattern, also
\* inside a docstring
count_code_metrics_every_def(text) ==
    IF text = << >> THEN ZeroMetrics
    ELSE LET lines == SplitLines(text)
             st == count_lines([blank_lines |-> 0, comment_lines |-> 0,
                                docstring_lines |-> 0, function_count |-> 0,
                                class_count |-> 0, import_count |-> 0,
                                todo_count |-> 0, max_line_length |-> 0,
                                in_docstring |-> FALSE,
                                docstring_delimiter |-> << >>], lines)
         IN  [total_lines |-> Len(lines),
              code_lines |-> Len(lines) - st.blank_lines - st.comment_lines
                                 - st.docstring_lines,
              comment_lines |-> st.comment_lines,
              blank_lines |-> st.blank_lines,
              docstring_lines |-> st.docstring_lines,
              function_count |->
                  Cardinality({k \in 1..Len(lines) : matches_def(lines[k])}),
              class_count |-> st.class_count,
              import_count |-> st.import_count,
              todo_count |-> st.todo_count,
              max_line_length |-> st.max_line_length,
              avg_line_length |-> round2(SumLengths(lines), Len(lines)),
              comment_ratio |->
                  round2((st.comment_lines + st.docstring_lines) * 100, Len(lines))]

\* count_code_metrics(content); avg_line_length and comment_ratio, the two
\* values rounded to two decimals, are held in hundredths
count_code_metrics(text) ==
    IF text = << >> THEN ZeroMetrics
    ELSE LET lines == SplitLines(text)
             st == count_lines([blank_lines |-> 0, comment_lines |-> 0,
                                docstring_lines |-> 0, function_count |-> 0,
                                class_count |-> 0, import_count |-> 0,
                                todo_count |-> 0, max_line_length |-> 0,
                                in_docstring |-> FALSE,
                                docstring_delimiter |-> << >>], lines)
         IN  [total_lines |-> Len(lines),
              code_lines |-> Len(lines) - st.blank_lines - st.comment_lines
                                 - st.docstring_lines,
              comment_lines |-> st.comment_lines,
              blank_lines |-> st.blank_lines,
              docstring_lines |-> st.docstring_lines,
              function_count |-> st.function_count,
              class_count |-> st.class_count,
              import_count |-> st.import_count,
              todo_count |-> st.todo_count,
              max_line_length |-> st.max_line_length,
              avg_line_length |-> round2(SumLengths(lines), Len(lines)),
              comment_ratio |->
                  round2((st.comment_lines + st.docstring_lines) * 100, Len(lines))]

\* the lines the explored source texts are made of: blank lines, comments,
\* docstring delimiters of both kinds alone, opening and closing a line, and
\* def, class, import and plain statements
MetricLineSet ==
    {<< >>, <<" ">>, <<"#", "d", "e", "f", " ", "f", "(">>, <<"#", " ", "T", "o", "d", "o">>,
     TripleDouble, TripleSingle, <<"\"", "\"", "\"", "d", "\"", "\"", "\"">>, <<"x", "\"", "\"", "\"">>, <<"x", "'", "'", "'">>,
     <<"d", "e", "f", " ", "f", "(", "x", ")">>, <<"c", "l", "a", "s", "s", " ", "C">>, <<"i", "m", "p", "o", "r", "t", " ", "o", "s">>, <<"f", "r", "o", "m", " ", "a", " ", "i", "m", "p", "o", "r", "t", " ", "b">>, <<"x", " ", "=", " ", "1">>}

RECURSIVE MetricLineLists(_)
MetricLineLists(n) ==
    IF n = 0 THEN {<< >>}
    ELSE MetricLineLists(n - 1)
         \cup {ls \o <<l>> : ls \in {x \in MetricLineLists(n - 1) : Len(x) = n - 1},
                             l \in MetricLineSet}

MetricTexts ==
    {JoinLines(ls) \o t : ls \in MetricLineLists(MaxMetricLines),
                          t \in {<< >>, <<"\n">>}}

InitMetrics ==
    /\ pc = "metrics_start"
    /\ OthersIdle
    /\ content \in MetricTexts
    /\ metrics = ZeroMetrics
    /\ smells = << >>
    /\ DiffIdle
    /\ SigIdle

\* metrics = count_code_metrics(content)
CountCodeMetrics ==
    /\ pc = "metrics_start"
    /\ metrics' = count_code_metrics(content)
    /\ pc' = "counted"
    /\ UNCHANGED <<content, smells, diffVars, sigVars, otherVars>>

NextMetrics == CountCodeMetrics

SpecMetrics == InitMetrics /\ [][NextMetrics]_vars

\* C5: total_lines = code_lines + comment_lines + blank_lines + docstring_lines
\* for every input text, each of the five counts being non-negative.
C5_MetricsInvariant ==
    pc = "counted" =>
        /\ metrics.total_lines = metrics.code_lines + metrics.comment_lines
                                     + metrics.blank_lines + metrics.docstring_lines
        /\ metrics.total_lines >= 0
        /\ metrics.code_lines >= 0
        /\ metrics.comment_lines >= 0
        /\ metrics.blank_lines >= 0
        /\ metrics.docstring_lines >= 0

\* C5 witness: a counted text of three lines: a blank line, a docstring line
\* and a line of code
C5_Witness ==
    /\ pc = "counted"
    /\ metrics.total_lines = 3
    /\ metrics.blank_lines = 1
    /\ metrics.docstring_lines = 1
    /\ metrics.code_lines = 1

-----------------------------------------------------------------------------
(* detect_code_smells (src/ultis.py:325-442).  A smell is modelled with its  *)
(* type, line and severity; its message, a text built from the same values, *)
(* is left out.                                                             *)

LongLineLimit == 100
LongFunctionLimit == 50
DeepNestingIndent == 16
MagicDigits == 3

Smell(type, line, severity) == [type |-> type, line |-> line, severity |-> severity]

\* not stripped or stripped.startswith('#'): the lines the first loop skips
is_skipped(line) == Strip(line) = << >> \/ StartsWith(Strip(line), <<"#">>)

\* is_long_line with ">=" for ">"
is_long_line_ge(line) == Len(line) >= LongLineLimit

\* len(line) > 100
is_long_line(line) == Len(line) > LongLineLimit

\* re.search(r'\bglobal\b', line)
has_global(line) ==
    \E k \in 1..Len(line) :
        /\ HasAt(line, k, <<"g", "l", "o", "b", "a", "l">>)
        /\ (k = 1 \/ ~IsWordChar(line[k - 1]))
        /\ (k + 6 > Len(line) \/ ~IsWordChar(line[k + 6]))

\* is_long_function with ">=" for ">"
is_long_function_ge(function_lines) == function_lines >= LongFunctionLimit

\* function_lines > 50
is_long_function(function_lines) == function_lines > LongFunctionLimit

\* len(line) - len(line.lstrip()) >= 16
is_deep_nesting(line) == Len(line) - Len(LStrip(line)) >= DeepNestingIndent

\* re.search(r'[^\w]\d{3,}[^\w]', line): a character that is not a word
\* character, three or more digits, and again a character that is not a word
\* character
has_magic_number(line) ==
    \E k \in 1..Len(line) :
        /\ ~IsWordChar(line[k])
        /\ DigitsEnd(line, k + 1) - (k + 1) >= MagicDigits
        /\ DigitsEnd(line, k + 1) <= Len(line)
        /\ ~IsWordChar(line[DigitsEnd(line, k + 1)])

\* the smells the function being closed adds: "if in_function and
\* function_lines > 50"
long_function_smell(st) ==
    IF st.in_function /\ is_long_function(st.function_lines)
    THEN <<Smell("long_function", st.function_start_line + 1, "medium")>>
    ELSE << >>

\* one iteration of the first loop, on line i (0-based); st holds smells,
\* function_start_line, function_lines and in_function
smell_line(st, i, line) ==
    IF is_skipped(line) THEN st
    ELSE LET long_line == IF is_long_line(line)
                          THEN <<Smell("long_line", i + 1, "low")>> ELSE << >>
             global == IF has_global(line)
                       THEN <<Smell("global_variable", i + 1, "medium")>> ELSE << >>
             closed == IF matches_def(line) THEN long_function_smell(st) ELSE << >>
             nesting == IF is_deep_nesting(line)
                        THEN <<Smell("deep_nesting", i + 1, "medium")>> ELSE << >>
             magic == IF has_magic_number(line) /\ ~StartsWith(Strip(line), <<"#">>)
                      THEN <<Smell("magic_number", i + 1, "low")>> ELSE << >>
         IN  [smells |-> st.smells \o long_line \o global \o closed \o nesting \o magic,
              function_start_line |->
                  IF matches_def(line) THEN i ELSE st.function_start_line,
              function_lines |->
                  IF matches_def(line) THEN 0
                  ELSE IF st.in_function THEN st.function_lines + 1
                  ELSE st.function_lines,
              in_function |-> st.in_function \/ matches_def(line)]

\* the first loop over lines[lo:hi], 0-based: the iterations of the first
\* half, then those of the second from the state the first half leaves.  (The
\* test on half is always true: it makes TLC compute that state before it
\* enters the second half.)
RECURSIVE smell_loop(_, _, _, _)
smell_loop(st, lines, lo, hi) ==
    IF lo >= hi THEN st
    ELSE IF hi = lo + 1 THEN smell_line(st, lo, lines[lo + 1])
    ELSE LET mid == (lo + hi) \div 2
             half == smell_loop(st, lines, lo, mid)
         IN  IF half.in_function \in BOOLEAN
             THEN smell_loop(half, lines, mid, hi)
             ELSE half

\* re.match(r'^\s*def\s+(\w{1,2})\s*\(', line)
matches_short_def(line) ==
    LET k1 == SkipSpace(line, 1)
        k2 == SkipSpace(line, k1 + 3)
        k3 == SkipWord(line, k2)
    IN  matches_def(line) /\ k3 - k2 <= 2

\* re.match(r'^\s*class\s+(\w{1,2})\s*[:\(]', line)
matches_short_class(line) ==
    LET k1 == SkipSpace(line, 1)
        k2 == SkipSpace(line, k1 + 5)
        k3 == SkipWord(line, k2)
        k4 == SkipSpace(line, k3)
    IN  /\ HasAt(line, k1, <<"c", "l", "a", "s", "s">>)
        /\ k2 > k1 + 5
        /\ k3 > k2
        /\ k3 - k2 <= 2
        /\ (HasAt(line, k4, <<":">>) \/ HasAt(line, k4, <<"(">>))

\* the second loop: the short_name smells of lines[lo:hi], 0-based, those of
\* the first half before those of the second
RECURSIVE short_name_loop(_, _, _)
short_name_loop(lines, lo, hi) ==
    IF lo >= hi THEN << >>
    ELSE IF hi = lo + 1
    THEN (IF matches_short_def(lines[lo + 1])
          THEN <<Smell("short_name", lo + 1, "low")>> ELSE << >>)
         \o (IF matches_short_class(lines[lo + 1])
             THEN <<Smell("short_name", lo + 1, "low")>> ELSE << >>)
    ELSE LET mid == (lo + hi) \div 2
         IN  short_name_loop(lines, lo, mid) \o short_name_loop(lines, mid, hi)

\* detect_code_smells with the short-name loop run before the first loop
detect_code_smells_short_first(text) ==
    IF text = << >> THEN << >>
    ELSE LET lines == SplitLines(text)
             st == smell_loop([smells |-> << >>, function_start_line |-> 0,
                               function_lines |-> 0, in_function |-> FALSE],
                              lines, 0, Len(lines))
         IN  short_name_loop(lines, 0, Len(lines)) \o st.smells \o long_function_smell(st)

\* detect_code_smells(content)
detect_code_smells(text) ==
    IF text = << >> THEN << >>
    ELSE LET lines == SplitLines(text)
             st == smell_loop([smells |-> << >>, function_start_line |-> 0,
                               function_lines |-> 0, in_function |-> FALSE],
                              lines, 0, Len(lines))
         IN  st.smells \o long_function_smell(st) \o short_name_loop(lines, 0, Len(lines))

-----------------------------------------------------------------------------
(* detect_code_smells run on a source text *)

\* n times the character c
Pad(c, n) == [k \in 1..n |-> c]

\* short lines: numbers at the end of the line, inside it, at its start, glued
\* to a name and in a comment; short and long names; the global keyword;
\* indentation at and below the nesting limit
SmellLineSet ==
    {<< >>, <<"x", " ", "=", " ", "1", "2", "3", "4", "5">>, <<"x", " ", "=", " ", "1", "2", "3", "4", "5", " ">>, <<"f", "(", "1", "2", "3", ")">>, <<"#", " ", "1", "2", "3", "4", " ">>,
     <<"d", "e", "f", " ", "f", "(">>, <<"d", "e", "f", " ", "f", "o", "o", "(">>, <<"c", "l", "a", "s", "s", " ", "C", ":">>, <<"g", "l", "o", "b", "a", "l", " ", "g">>,
     <<"x", "1", "2", "3", "4", " ", "=", " ", "1">>, <<"1", "2", "3", "4", " ">>,
     Pad(" ", DeepNestingIndent) \o <<"y">>,
     Pad(" ", DeepNestingIndent - 1) \o <<"y">>}

RECURSIVE SmellLineLists(_)
SmellLineLists(n) ==
    IF n = 0 THEN {<< >>}
    ELSE SmellLineLists(n - 1)
         \cup {ls \o <<l>> : ls \in {x \in SmellLineLists(n - 1) : Len(x) = n - 1},
                             l \in SmellLineSet}

\* lines of code, comments, indented comments and blank lines whose length is
\* just below, at and just above the long-line limit
LongLineSet ==
    UNION {{Pad("y", n), <<"#">> \o Pad("y", n - 1),
            <<" ", "#">> \o Pad("y", n - 2), Pad(" ", n)} :
               n \in (LongLineLimit - 1)..(LongLineLimit + 1)}

LongLineLists ==
    {<<l>> : l \in LongLineSet} \cup {<<<<"d", "e", "f", " ", "f", "o", "o", "(">>, l>> : l \in LongLineSet}

\* a function whose body has n counted lines, the last one holding a number,
\* with blank and comment lines (filler) after its def line
FunctionLines(def_line, filler, n) ==
    <<def_line>> \o filler
        \o (IF n = 0 THEN << >> ELSE Pad(<<"y">>, n - 1) \o <<<<"f", "(", "1", "2", "3", ")">>>>)

\* one function, or two, with bodies just below, at and just above the
\* long-function limit, preceded or not by a statement
FunctionLists ==
    {pre \o FunctionLines(d, filler, n1) \o second :
        pre \in {<< >>, <<<<"x", "1", "2", "3", "4", " ", "=", " ", "1">>>>},
        d \in {<<"d", "e", "f", " ", "f", "(">>, <<"d", "e", "f", " ", "f", "o", "o", "(">>},
        filler \in {<< >>, <<<< >>, <<"#", " ", "1", "2", "3", "4", " ">>>>},
        n1 \in (LongFunctionLimit - 1)..(LongFunctionLimit + 1),
        second \in {<< >>} \cup
                   {FunctionLines(<<"d", "e", "f", " ", "f", "(">>, << >>, n2) :
                        n2 \in {0, LongFunctionLimit, LongFunctionLimit + 1}}}

SmellTexts ==
    {JoinLines(ls) \o t : ls \in SmellLineLists(MaxSmellLines), t \in {<< >>, <<"\n">>}}
        \cup {JoinLines(ls) : ls \in LongLineLists \cup FunctionLists}

InitSmells ==
    /\ pc = "smells_start"
    /\ OthersIdle
    /\ content \in SmellTexts
    /\ metrics = ZeroMetrics
    /\ smells = << >>
    /\ DiffIdle
    /\ SigIdle

\* smells = detect_code_smells(content)
DetectCodeSmells ==
    /\ pc = "smells_start"
    /\ smells' = detect_code_smells(content)
    /\ pc' = "detected"
    /\ UNCHANGED <<content, metrics, diffVars, sigVars, otherVars>>

NextSmells == DetectCodeSmells

SpecSmells == InitSmells /\ [][NextSmells]_vars

-----------------------------------------------------------------------------
(* Claims about detect_code_smells *)

\* number of smells of a type reported at a line (1-based)
CountAt(list, type, k) ==
    Cardinality({n \in 1..Len(list) : list[n].type = type /\ list[n].line = k})

IsBlankLine(line) == \A j \in 1..Len(line) : IsSpace(line[j])

IsCommentLine(line) ==
    \E j \in 1..Len(line) : line[j] = "#" /\ \A m \in 1..(j - 1) : IsSpace(line[m])

\* the line holds an integer literal of three or more digits with no
\* identifier character right before or right after it
HasBareLiteral(line) ==
    \E i \in 1..Len(line) : \E j \in (i + 2)..Len(line) :
        /\ \A m \in i..j : IsDigit(line[m])
        /\ (i = 1 \/ ~IsWordChar(line[i - 1]))
        /\ (j = Len(line) \/ ~IsWordChar(line[j + 1]))

\* C7: every non-comment line holding an integer literal of three or more
\* digits, not adjacent to an identifier character, gets a magic_number smell
\* (severity low) at its 1-based line number, also when the literal ends the
\* line.
C7_MagicNumber ==
    pc = "detected" =>
        LET lines == SplitLines(content)
        IN  \A k \in 1..Len(lines) :
                (~IsCommentLine(lines[k]) /\ HasBareLiteral(lines[k])) =>
                    \E n \in 1..Len(smells) : smells[n] = Smell("magic_number", k, "low")

\* the def lines of a text, the next def line after line k (Len + 1 if none)
\* and the number of non-blank, non-comment lines between line k and it
IsDefLine(lines, k) == matches_def(lines[k])

NextDefLine(lines, k) ==
    LET later == {j \in (k + 1)..Len(lines) : IsDefLine(lines, j)}
    IN  IF later = {} THEN Len(lines) + 1
        ELSE CHOOSE j \in later : \A m \in later : j <= m

BodyCount(lines, k) ==
    Cardinality({j \in (k + 1)..(NextDefLine(lines, k) - 1) :
                     ~IsBlankLine(lines[j]) /\ ~IsCommentLine(lines[j])})

\* C8: for each function definition line there is exactly one long_function
\* smell at that line if the number of non-blank, non-comment lines up to the
\* next def (or the end of the text) is greater than 50, and none otherwise
\* (none at exactly 50).
C8_LongFunction ==
    pc = "detected" =>
        LET lines == SplitLines(content)
        IN  \A k \in 1..Len(lines) :
                IsDefLine(lines, k) =>
                    CountAt(smells, "long_function", k) =
                        IF BodyCount(lines, k) > LongFunctionLimit THEN 1 ELSE 0

\* C8 witness: a text with a function of 51 counted lines, reported, and a
\* function of exactly 50, not reported
C8_Witness ==
    /\ pc = "detected"
    /\ LET lines == SplitLines(content)
       IN  \E k1 \in 1..Len(lines) : \E k2 \in 1..Len(lines) :
               /\ IsDefLine(lines, k1) /\ IsDefLine(lines, k2)
               /\ BodyCount(lines, k1) = LongFunctionLimit + 1
               /\ CountAt(smells, "long_function", k1) = 1
               /\ BodyCount(lines, k2) = LongFunctionLimit
               /\ CountAt(smells, "long_function", k2) = 0

\* C9 as claimed: the 'line' fields are non-decreasing along the returned
\* list, across all kinds of smell.
C9_LineOrder ==
    pc = "detected" =>
        \A n \in 1..(Len(smells) - 1) : smells[n].line <= smells[n + 1].line

PerLineTypes == {"long_line", "global_variable", "deep_nesting", "magic_number"}

\* whether the code's condition for a smell of the type holds at line k
Triggered(lines, type, k) ==
    IF type = "short_name"
    THEN matches_short_def(lines[k]) \/ matches_short_class(lines[k])
    ELSE /\ ~IsBlankLine(lines[k])
         /\ ~IsCommentLine(lines[k])
         /\ CASE type = "long_line" -> Len(lines[k]) > LongLineLimit
              [] type = "global_variable" -> has_global(lines[k])
              [] type = "deep_nesting" -> is_deep_nesting(lines[k])
              [] type = "magic_number" -> has_magic_number(lines[k])
              [] type = "long_function" ->
                     IsDefLine(lines, k) /\ BodyCount(lines, k) > LongFunctionLimit

\* C9 (amended): the list is in pass order: the smells tied to the line being
\* read (long_line, global_variable, deep_nesting, magic_number) are
\* non-decreasing in line among themselves, the long_function smells are in
\* increasing line order among themselves, the short_name smells follow every
\* other smell, in non-decreasing line order; and each triggered smell is
\* listed exactly once.
C9_PassOrder ==
    pc = "detected" =>
        LET lines == SplitLines(content)
        IN  /\ \A m \in 1..Len(smells) : \A n \in (m + 1)..Len(smells) :
                   /\ (smells[m].type \in PerLineTypes /\ smells[n].type \in PerLineTypes)
                          => smells[m].line <= smells[n].line
                   /\ (smells[m].type = "long_function" /\ smells[n].type = "long_function")
                          => smells[m].line < smells[n].line
                   /\ smells[m].type = "short_name"
                          => (smells[n].type = "short_name"
                                  /\ smells[m].line <= smells[n].line)
            /\ \A n \in 1..Len(smells) : smells[n].line \in 1..Len(lines)
            /\ \A k \in 1..Len(lines) :
                   \A type \in PerLineTypes \cup {"long_function", "short_name"} :
                       CountAt(smells, type, k) =
                           IF Triggered(lines, type, k) THEN 1 ELSE 0

\* C9 witness: a returned list that is not in line order: a short_name smell
\* that follows a smell of a later line
C9_Witness ==
    /\ pc = "detected"
    /\ \E n \in 1..(Len(smells) - 1) :
           /\ smells[n].line > smells[n + 1].line
           /\ smells[n + 1].type = "short_name"

\* C10 as claimed: a long_line smell for every line longer than 100
\* characters, whatever its kind (comment lines included), and for no other
\* line.
C10_LongLineAnyKind ==
    pc = "detected" =>
        LET lines == SplitLines(content)
        IN  \A k \in 1..Len(lines) :
                (\E n \in 1..Len(smells) : smells[n] = Smell("long_line", k, "low"))
                    <=> Len(lines[k]) > LongLineLimit

\* C10 (amended): a long_line smell (severity low) for every line longer than
\* 100 characters that is neither blank nor a comment, and for no other line.
C10_LongLineOfCode ==
    pc = "detected" =>
        LET lines == SplitLines(content)
        IN  /\ \A k \in 1..Len(lines) :
                   (\E n \in 1..Len(smells) : smells[n] = Smell("long_line", k, "low"))
                       <=> /\ Len(lines[k]) > LongLineLimit
                           /\ ~IsBlankLine(lines[k])
                           /\ ~IsCommentLine(lines[k])
            /\ \A n \in 1..Len(smells) :
                   smells[n].type = "long_line" =>
                       smells[n].severity = "low" /\ smells[n].line \in 1..Len(lines)

\* C10 witness: a line of code of 101 characters, reported as a long line
C10_Witness ==
    /\ pc = "detected"
    /\ LET lines == SplitLines(content)
       IN  \E k \in 1..Len(lines) :
               /\ Len(lines[k]) = LongLineLimit + 1
               /\ ~IsBlankLine(lines[k])
               /\ ~IsCommentLine(lines[k])
               /\ CountAt(smells, "long_line", k) = 1

-----------------------------------------------------------------------------
(* Encodings used by the snapshot utilities: str.encode / bytes.decode,     *)
(* text-mode reading, zlib, bytes.hex and hashlib.md5.  bytes is a sequence *)
(* of integers 0..255.                                                      *)

\* the characters U+0020..U+005F and U+0061..U+007E in code point order
Printable ==
    <<" ", "!", "\"", "#", "$", "%", "&", "'", "(", ")", "*", "+", ",", "-", ".", "/",
      "0", "1", "2", "3", "4", "5", "6", "7", "8", "9", ":", ";", "<", "=", ">", "?",
      "@", "A", "B", "C", "D", "E", "F", "G", "H", "I", "J", "K", "L", "M", "N", "O",
      "P", "Q", "R", "S", "T", "U", "V", "W", "X", "Y", "Z", "[", "\\", "]", "^", "_",
      "a", "b", "c", "d", "e", "f", "g", "h", "i", "j", "k", "l", "m", "n", "o",
      "p", "q", "r", "s", "t", "u", "v", "w", "x", "y", "z", "{", "|", "}", "~">>

\* the characters beyond ASCII that the explored texts hold, named by their
\* code point: Latin-1 characters, the euro sign and a lone surrogate
NonAscii ==
    [c \in {"U+0082", "U+00A9", "U+00AC", "U+00C3", "U+00E2", "U+00E9", "U+20AC",
            "U+D800"} |->
        CASE c = "U+0082" -> 130
          [] c = "U+00A9" -> 169
          [] c = "U+00AC" -> 172
          [] c = "U+00C3" -> 195
          [] c = "U+00E2" -> 226
          [] c = "U+00E9" -> 233
          [] c = "U+20AC" -> 8364
          [] c = "U+D800" -> 55296]

Chars == Range(Printable) \cup {"\t", "\n", "\r"} \cup DOMAIN NonAscii

\* ord(c)
ord(c) ==
    CASE c = "\t" -> 9
      [] c = "\n" -> 10
      [] c = "\r" -> 13
      [] c \in DOMAIN NonAscii -> NonAscii[c]
      [] OTHER -> LET k == CHOOSE n \in 1..Len(Printable) : Printable[n] = c
                  IN  IF k <= 64 THEN 31 + k ELSE 32 + k

\* chr(n)
chr(n) == CHOOSE c \in Chars : ord(c) = n

IsSurrogate(n) == 55296 <= n /\ n <= 57343

\* the UTF-8 bytes of one code point below U+10000
utf8_bytes(n) ==
    IF n < 128 THEN <<n>>
    ELSE IF n < 2048 THEN <<192 + (n \div 64), 128 + (n % 64)>>
    ELSE <<224 + (n \div 4096), 128 + ((n \div 64) % 64), 128 + (n % 64)>>

RECURSIVE utf8_concat(_)
utf8_concat(s) ==
    IF s = << >> THEN << >> ELSE utf8_bytes(ord(Head(s))) \o utf8_concat(Tail(s))

\* s.encode('utf-8'): UnicodeEncodeError on a surrogate
utf8_encode(s) ==
    IF \E k \in 1..Len(s) : IsSurrogate(ord(s[k]))
    THEN [raised |-> TRUE, value |-> << >>]
    ELSE [raised |-> FALSE, value |-> utf8_concat(s)]

IsContinuation(b) == 128 <= b /\ b <= 191

\* the length of the well-formed UTF-8 sequence that starts at b[k], 0 if
\* there is none (overlong forms and encoded surrogates are ill-formed)
utf8_length(b, k) ==
    LET has(n) == k + n - 1 <= Len(b)
    IN  IF b[k] < 128 THEN 1
        ELSE IF 194 <= b[k] /\ b[k] <= 223
        THEN IF has(2) /\ IsContinuation(b[k + 1]) THEN 2 ELSE 0
        ELSE IF 224 <= b[k] /\ b[k] <= 239
        THEN IF /\ has(3)
                /\ IsContinuation(b[k + 1])
                /\ IsContinuation(b[k + 2])
                /\ (b[k] = 224 => b[k + 1] >= 160)
                /\ (b[k] = 237 => b[k + 1] <= 159)
             THEN 3 ELSE 0
        ELSE 0

\* the code point of the well-formed sequence of length n that starts at b[k]
utf8_code_point(b, k, n) ==
    IF n = 1 THEN b[k]
    ELSE IF n = 2 THEN (b[k] - 192) * 64 + (b[k + 1] - 128)
    ELSE (b[k] - 224) * 4096 + (b[k + 1] - 128) * 64 + (b[k + 2] - 128)

\* b.decode('utf-8'): UnicodeDecodeError on an ill-formed sequence
RECURSIVE utf8_decode_from(_, _, _)
utf8_decode_from(b, k, acc) ==
    IF k > Len(b) THEN [raised |-> FALSE, value |-> acc]
    ELSE LET n == utf8_length(b, k)
         IN  IF n = 0 THEN [raised |-> TRUE, value |-> << >>]
             ELSE utf8_decode_from(b, k + n, Append(acc, chr(utf8_code_point(b, k, n))))

utf8_decode(b) == utf8_decode_from(b, 1, << >>)

\* b.decode('latin-1'): every byte is the character of that code point
latin1_decode(b) == [k \in 1..Len(b) |-> chr(b[k])]

\* the newline translation of a file opened in text mode for reading:
\* "\r\n" and "\r" are read as "\n"
RECURSIVE universal_newlines(_)
universal_newlines(s) ==
    IF s = << >> THEN << >>
    ELSE IF Head(s) = "\r"
    THEN <<"\n">> \o universal_newlines(IF Len(s) >= 2 /\ s[2] = "\n"
                                        THEN SubSeq(s, 3, Len(s)) ELSE Tail(s))
    ELSE <<Head(s)>> \o universal_newlines(Tail(s))

\* zlib's Adler-32 checksum, as the pair <<s2, s1>> of its 16-bit halves
RECURSIVE adler32_from(_, _, _)
adler32_from(b, s1, s2) ==
    IF b = << >> THEN <<s2, s1>>
    ELSE LET t1 == (s1 + Head(b)) % 65521
         IN  adler32_from(Tail(b), t1, (s2 + t1) % 65521)

adler32(b) == adler32_from(b, 1, 0)

\* the two bytes of a 16-bit number, high byte first
big_endian16(n) == <<n \div 256, n % 256>>

\* zlib.compress(data): the two header bytes of the default level, the
\* DEFLATE stream and the Adler-32 of the data.  The DEFLATE stream is
\* modelled in its stored form, one final block that holds the bytes behind
\* their length and its one's complement (low byte first).
zlib_compress(data) ==
    LET n == Len(data)
        c == 65535 - n
    IN  <<120, 156>> \o <<1, n % 256, n \div 256, c % 256, c \div 256>> \o data
            \o big_endian16(adler32(data)[1]) \o big_endian16(adler32(data)[2])

\* zlib.decompress(data): zlib.error unless data is a complete zlib stream
\* whose checksum matches
zlib_decompress(data) ==
    LET n == Len(data) - 11
        body == SubSeq(data, 8, 7 + n)
    IN  IF /\ n >= 0
           /\ SubSeq(data, 1, 2) = <<120, 156>>
           /\ data[3] = 1
           /\ data[4] + (256 * data[5]) = n
           /\ data[6] + (256 * data[7]) = 65535 - n
           /\ SubSeq(data, 8 + n, 11 + n) =
                  big_endian16(adler32(body)[1]) \o big_endian16(adler32(body)[2])
        THEN [raised |-> FALSE, value |-> body]
        ELSE [raised |-> TRUE, value |-> << >>]

HexDigits ==
    <<"0", "1", "2", "3", "4", "5", "6", "7", "8", "9", "a", "b", "c", "d", "e", "f">>

\* bytes.hex()
RECURSIVE hex(_)
hex(b) ==
    IF b = << >> THEN << >>
    ELSE <<HexDigits[(Head(b) \div 16) + 1], HexDigits[(Head(b) % 16) + 1]>> \o hex(Tail(b))

\* hashlib.md5(data).hexdigest().  The digest is not computed: it stands as
\* the value determined by the bytes digested, two digests being equal when
\* the bytes are (no collision arises among the explored texts).
md5_hexdigest(data) == <<"md5">> \o hex(data)

\* compute_file_hash(content)
compute_file_hash(text) ==
    LET e == utf8_encode(text)
    IN  [raised |-> e.raised,
         value |-> IF e.raised THEN << >> ELSE md5_hexdigest(e.value)]

\* compress_content(content)
compress_content(text) ==
    LET e == utf8_encode(text)
    IN  [raised |-> e.raised,
         value |-> IF e.raised THEN << >> ELSE zlib_compress(e.value)]

\* decompress_content(compressed_data)
decompress_content(compressed_data) ==
    LET z == zlib_decompress(compressed_data)
        d == utf8_decode(z.value)
    IN  IF z.raised THEN z ELSE d

-----------------------------------------------------------------------------
(* create_snapshot and compare_snapshots (src/ultis.py:1000-1106).  A dict  *)
(* is a function on its keys, {} the function on no key.                    *)

\* d.get(key, default)
Get(d, key, default) == IF key \in DOMAIN d THEN d[key] ELSE default

\* s.lower(), over the ASCII letters
Lower(s) ==
    [k \in 1..Len(s) |->
        IF s[k] \in Range(UpperLetters)
        THEN LowerLetters[CHOOSE n \in 1..26 : UpperLetters[n] = s[k]]
        ELSE s[k]]

\* s.rfind(c), 0-based, -1 if c is not in s
RFind(s, c) ==
    LET at == {k \in 1..Len(s) : s[k] = c}
    IN  IF at = {} THEN -1 ELSE (CHOOSE k \in at : \A m \in at : m <= k) - 1

\* os.path.splitext(p)[1] with "/" as the separator: the extension starts
\* at the last dot of the last component, unless only dots precede it there
splitext_ext(p) ==
    LET sepIndex == RFind(p, "/")
        dotIndex == RFind(p, ".")
    IN  IF /\ dotIndex > sepIndex
           /\ \E k \in (sepIndex + 1)..(dotIndex - 1) : p[k + 1] # "."
        THEN SubSeq(p, dotIndex + 1, Len(p))
        ELSE << >>

\* os.path.basename(p) with "/" as the separator
basename(p) == SubSeq(p, RFind(p, "/") + 2, Len(p))

\* language_map of identify_code_language
language_map ==
    {<< <<".", "p", "y">>, "Python" >>,
     << <<".", "j", "s">>, "JavaScript" >>,
     << <<".", "h", "t", "m", "l">>, "HTML" >>,
     << <<".", "c", "s", "s">>, "CSS" >>,
     << <<".", "j", "a", "v", "a">>, "Java" >>,
     << <<".", "c">>, "C" >>,
     << <<".", "c", "p", "p">>, "C++" >>,
     << <<".", "h">>, "C/C++ Header" >>,
     << <<".", "c", "s">>, "C#" >>,
     << <<".", "g", "o">>, "Go" >>,
     << <<".", "r", "b">>, "Ruby" >>,
     << <<".", "p", "h", "p">>, "PHP" >>,
     << <<".", "t", "s">>, "TypeScript" >>,
     << <<".", "j", "s", "x">>, "React JSX" >>,
     << <<".", "t", "s", "x">>, "React TSX" >>,
     << <<".", "m", "d">>, "Markdown" >>,
     << <<".", "j", "s", "o", "n">>, "JSON" >>,
     << <<".", "x", "m", "l">>, "XML" >>,
     << <<".", "s", "q", "l">>, "SQL" >>,
     << <<".", "s", "h">>, "Shell" >>,
     << <<".", "b", "a", "t">>, "Batch" >>,
     << <<".", "p", "s", "1">>, "PowerShell" >>}

\* identify_code_language(filename, content); the content is not looked at
identify_code_language(filename) ==
    LET ext == Lower(splitext_ext(filename))
    IN  IF \E e \in language_map : e[1] = ext
        THEN (CHOOSE e \in language_map : e[1] = ext)[2]
        ELSE "Unknown"

\* a file of the file system: no file, a file that may not be opened, a
\* directory, or a regular file with its bytes; mtime is its modification time
NoFile == [kind |-> "missing", data |-> << >>, mtime |-> 0]

\* the file at file_path; fs is a function from the paths on disk to files
FileAt(fs, file_path) == IF file_path \in DOMAIN fs THEN fs[file_path] ELSE NoFile

\* safe_read_file that gives the empty text, in place of None, for a file
\* that cannot be read
safe_read_file_empty_on_error(fs, file_path) ==
    LET f == FileAt(fs, file_path)
        d == utf8_decode(f.data)
    IN  IF f.kind # "file" THEN << >>
        ELSE IF ~d.raised THEN universal_newlines(d.value)
        ELSE universal_newlines(latin1_decode(f.data))

\* safe_read_file(file_path): the text of the file, or None.  A file that is
\* not UTF-8 is read again as Latin-1, which decodes every byte.
safe_read_file(fs, file_path) ==
    LET f == FileAt(fs, file_path)
        d == utf8_decode(f.data)
    IN  IF f.kind # "file" THEN None
        ELSE IF ~d.raised THEN universal_newlines(d.value)
        ELSE universal_newlines(latin1_decode(f.data))

\* os.path.exists(file_path)
path_exists(fs, file_path) == FileAt(fs, file_path).kind # "missing"

\* get_file_age(file_path): the modification time, or None
get_file_age(fs, file_path) ==
    IF path_exists(fs, file_path) THEN FileAt(fs, file_path).mtime ELSE NoneInt

\* datetime.isoformat() of an instant: the instants are numbered by the
\* ticks of the clock and written in decimal
isoformat(t) == FormatInt(t)

\* build_snapshot that digests the clock together with the content
build_snapshot_hash_of_clock(file_path, text, file_time, now) ==
    LET content_hash == compute_file_hash(text)
        language == identify_code_language(file_path)
    IN  IF content_hash.raised THEN EmptyDict
        ELSE [file_path |-> file_path,
              file_name |-> basename(file_path),
              timestamp |-> isoformat(now),
              file_modified |-> IF file_time # NoneInt THEN isoformat(file_time) ELSE None,
              hash |-> content_hash.value \o isoformat(now),
              language |-> language,
              size |-> Len(text),
              metrics |-> IF language # "" THEN count_code_metrics(text) ELSE EmptyDict,
              content |-> text,
              compressed_content |->
                  IF text # << >> THEN hex(compress_content(text).value) ELSE None]

\* lines 1018-1047 of create_snapshot, after the content is resolved:
\* file_time is the value of line 1022 and now the clock read at line 1034.
\* An exception (content that cannot be encoded) is caught and {} returned.
build_snapshot(file_path, text, file_time, now) ==
    LET content_hash == compute_file_hash(text)
        language == identify_code_language(file_path)
    IN  IF content_hash.raised THEN EmptyDict
        ELSE [file_path |-> file_path,
              file_name |-> basename(file_path),
              timestamp |-> isoformat(now),
              file_modified |-> IF file_time # NoneInt THEN isoformat(file_time) ELSE None,
              hash |-> content_hash.value,
              language |-> language,
              size |-> Len(text),
              metrics |-> IF language # "" THEN count_code_metrics(text) ELSE EmptyDict,
              content |-> text,
              compressed_content |->
                  IF text # << >> THEN hex(compress_content(text).value) ELSE None]

\* metrics_changes with an entry for every key, changed or not
metrics_changes_every_key(old_metrics, new_metrics) ==
    [key \in DOMAIN old_metrics \cup DOMAIN new_metrics |->
        [old |-> Get(old_metrics, key, 0),
         new |-> Get(new_metrics, key, 0),
         change |-> Get(new_metrics, key, 0) - Get(old_metrics, key, 0)]]

\* the loop of lines 1076-1084 of compare_snapshots: metrics_changes
metrics_changes(old_metrics, new_metrics) ==
    LET changed == {key \in DOMAIN old_metrics \cup DOMAIN new_metrics :
                        Get(old_metrics, key, 0) # Get(new_metrics, key, 0)}
    IN  [key \in changed |->
            [old |-> Get(old_metrics, key, 0),
             new |-> Get(new_metrics, key, 0),
             change |-> Get(new_metrics, key, 0) - Get(old_metrics, key, 0)]]

\* compare_snapshots(old_snapshot, new_snapshot)
compare_snapshots(old_snapshot, new_snapshot) ==
    IF old_snapshot = EmptyDict \/ new_snapshot = EmptyDict THEN EmptyDict
    ELSE LET old_content == Get(old_snapshot, "content", << >>)
             new_content == Get(new_snapshot, "content", << >>)
         IN  [file_path |-> Get(new_snapshot, "file_path", None),
              file_name |-> Get(new_snapshot, "file_name", None),
              old_timestamp |-> Get(old_snapshot, "timestamp", None),
              new_timestamp |-> Get(new_snapshot, "timestamp", None),
              old_hash |-> Get(old_snapshot, "hash", None),
              new_hash |-> Get(new_snapshot, "hash", None),
              is_significant |->
                  is_significant_change(old_content, new_content, DefaultThreshold),
              diff |-> generate_diff(old_content, new_content),
              metrics_changes |->
                  metrics_changes(Get(old_snapshot, "metrics", EmptyDict),
                                  Get(new_snapshot, "metrics", EmptyDict)),
              size_change |->
                  Get(new_snapshot, "size", 0) - Get(old_snapshot, "size", 0)]

-----------------------------------------------------------------------------
(* Two threads call create_snapshot(snap_path, snap_content) and then       *)
(* compare_snapshots on the two snapshots made, while the clock advances    *)
(* and the file on disk is rewritten or removed.                            *)

\* the threads that call the snapshot utilities
Threads == {"t1", "t2"}

\* the last instant of the clock
MaxClock == 2

\* the one path that names a file on disk
DiskPath == <<"a", ".", "p", "y">>

\* the paths given to create_snapshot: a Python source, an upper-case
\* extension, an unknown extension, no extension, a dot file in a directory
SnapPaths ==
    {DiskPath,
     <<"A", ".", "P", "Y">>,
     <<"b", ".", "t", "x", "t">>,
     <<"c">>,
     <<"d", "/", ".", "p", "y">>}

\* the texts given as content: empty, code with a comment, non-ASCII text,
\* a text that cannot be encoded
SnapTexts ==
    {<< >>,
     <<"#", " ", "c", "\n", "x", "\n">>,
     <<"U+00E9", "U+20AC">>,
     <<"x", "U+D800">>}

\* the bytes a file on disk may hold: nothing, UTF-8 text with a Windows
\* line end, a Latin-1 byte that is not UTF-8
FileData == {<< >>, <<120, 13, 10, 195, 169>>, <<233>>}

FileStates(t) ==
    {NoFile, [kind |-> "denied", data |-> << >>, mtime |-> t],
     [kind |-> "directory", data |-> << >>, mtime |-> t]}
        \cup {[kind |-> "file", data |-> d, mtime |-> t] : d \in FileData}

InitSnapshot ==
    /\ pc = "snapshots"
    /\ files \in [{DiskPath} -> FileStates(0)]
    /\ clock = 1
    /\ snap_path \in SnapPaths
    /\ snap_content \in SnapTexts \cup {None}
    /\ caller = [t \in Threads |-> NotCalled]
    /\ UiIdle /\ DiffIdle /\ SigIdle /\ CodeIdle /\ CompareIdle /\ AiIdle

\* the clock advances
Tick ==
    /\ pc = "snapshots"
    /\ clock < MaxClock
    /\ clock' = clock + 1
    /\ UNCHANGED <<pc, files, snap_path, snap_content, caller>>
    /\ UNCHANGED <<uiVars, diffVars, sigVars, codeVars, compareVars, aiVars>>

\* another program writes the file on disk
WriteFile ==
    /\ pc = "snapshots"
    /\ \E d \in FileData :
           files' = [files EXCEPT ![DiskPath] =
                        [kind |-> "file", data |-> d, mtime |-> clock]]
    /\ files' # files
    /\ UNCHANGED <<pc, clock, snap_path, snap_content, caller>>
    /\ UNCHANGED <<uiVars, diffVars, sigVars, codeVars, compareVars, aiVars>>

\* another program removes the file on disk
RemoveFile ==
    /\ pc = "snapshots"
    /\ files[DiskPath] # NoFile
    /\ files' = [files EXCEPT ![DiskPath] = NoFile]
    /\ UNCHANGED <<pc, clock, snap_path, snap_content, caller>>
    /\ UNCHANGED <<uiVars, diffVars, sigVars, codeVars, compareVars, aiVars>>

\* create_snapshot, lines 1013-1019: the content is read if it is not given;
\* {} is returned if it cannot be read or cannot be hashed
ResolveContent(t) ==
    /\ pc = "snapshots"
    /\ caller[t].pc = "call"
    /\ LET text == IF snap_content = None THEN safe_read_file(files, snap_path)
                   ELSE snap_content
       IN  caller' = [caller EXCEPT ![t] =
               IF text = None \/ compute_file_hash(text).raised
               THEN [@ EXCEPT !.pc = "created", !.snapshot = EmptyDict]
               ELSE [@ EXCEPT !.pc = "hashed", !.text = text]]
    /\ UNCHANGED <<pc, files, clock, snap_path, snap_content>>
    /\ UNCHANGED <<uiVars, diffVars, sigVars, codeVars, compareVars, aiVars>>

\* create_snapshot, line 1022: os.path.exists(file_path), and the clock read
\* in place of the modification time of a file that does not exist
PathExists(t) ==
    /\ pc = "snapshots"
    /\ caller[t].pc = "hashed"
    /\ caller' = [caller EXCEPT ![t] =
           IF path_exists(files, snap_path)
           THEN [@ EXCEPT !.pc = "exists"]
           ELSE [@ EXCEPT !.pc = "timed", !.file_time = clock]]
    /\ UNCHANGED <<pc, files, clock, snap_path, snap_content>>
    /\ UNCHANGED <<uiVars, diffVars, sigVars, codeVars, compareVars, aiVars>>

\* create_snapshot, line 1022: get_file_age(file_path) of a file that existed
GetFileAge(t) ==
    /\ pc = "snapshots"
    /\ caller[t].pc = "exists"
    /\ caller' = [caller EXCEPT ![t] =
           [@ EXCEPT !.pc = "timed", !.file_time = get_file_age(files, snap_path)]]
    /\ UNCHANGED <<pc, files, clock, snap_path, snap_content>>
    /\ UNCHANGED <<uiVars, diffVars, sigVars, codeVars, compareVars, aiVars>>

\* create_snapshot, lines 1025-1047: the snapshot is built and returned
BuildSnapshot(t) ==
    /\ pc = "snapshots"
    /\ caller[t].pc = "timed"
    /\ caller' = [caller EXCEPT ![t] =
           [@ EXCEPT !.pc = "created",
                     !.snapshot = build_snapshot(snap_path, caller[t].text,
                                                 caller[t].file_time, clock)]]
    /\ UNCHANGED <<pc, files, clock, snap_path, snap_content>>
    /\ UNCHANGED <<uiVars, diffVars, sigVars, codeVars, compareVars, aiVars>>

\* compare_snapshots(old, new) on the snapshots the two threads made
CompareSnapshots(t) ==
    /\ pc = "snapshots"
    /\ \A u \in Threads : caller[u].pc \in {"created", "compared"}
    /\ caller[t].pc = "created"
    /\ caller' = [caller EXCEPT ![t] =
           [@ EXCEPT !.pc = "compared",
                     !.report = compare_snapshots(caller["t1"].snapshot,
                                                  caller["t2"].snapshot)]]
    /\ UNCHANGED <<pc, files, clock, snap_path, snap_content>>
    /\ UNCHANGED <<uiVars, diffVars, sigVars, codeVars, compareVars, aiVars>>

NextSnapshot ==
    \/ Tick
    \/ WriteFile
    \/ RemoveFile
    \/ \E t \in Threads :
           \/ ResolveContent(t)
           \/ PathExists(t)
           \/ GetFileAge(t)
           \/ BuildSnapshot(t)
           \/ CompareSnapshots(t)

SpecSnapshot == InitSnapshot /\ [][NextSnapshot]_vars

\* the extension of path p is a key of the language table
Recognized(p) == \E e \in language_map : e[1] = Lower(splitext_ext(p))

\* thread t has returned from create_snapshot
Created(t) == caller[t].pc \in {"created", "compared"}

\* C11: create_snapshot runs the metrics analyzer only when the path's
\* extension is in the language table: for a path whose extension is not
\* recognized, the metrics of the snapshot are empty or all zero, whatever
\* the content.
C11_UnknownExtension ==
    \A t \in Threads :
        (Created(t) /\ caller[t].snapshot # EmptyDict /\ ~Recognized(snap_path))
            => caller[t].snapshot.metrics \in {EmptyDict, ZeroMetrics}

\* the file at path p cannot be read: it is missing, may not be opened, or
\* is a directory
Unreadable(fs, p) == p \notin DOMAIN fs \/ fs[p].kind # "file"

\* C13 (step): a call of create_snapshot that is to read the content, and
\* finds the file unreadable, returns {} at once
C13_UnreadableStep ==
    \A t \in Threads :
        (/\ caller[t].pc = "call"
         /\ caller'[t].pc # "call"
         /\ snap_content = None
         /\ Unreadable(files, snap_path))
            => (caller'[t].pc = "created" /\ caller'[t].snapshot = EmptyDict)

\* C13 (state): compare_snapshots on snapshots that are the marker {}
\* returns {}
C13_EmptyReport ==
    \A t \in Threads :
        (/\ caller[t].pc = "compared"
         /\ caller["t1"].snapshot = EmptyDict
         /\ caller["t2"].snapshot = EmptyDict)
            => caller[t].report = EmptyDict

\* C13: an unreadable source never raises: create_snapshot returns the
\* marker {} when the content cannot be read, and compare_snapshots returns
\* the report {} when its snapshots are that marker; every call returns a
\* dict, no exception reaches the caller.
C13_UnreadableNeverRaises == [][C13_UnreadableStep]_vars /\ [](C13_EmptyReport)

\* C13 witness: the content was to be read, both threads got {} from
\* create_snapshot for a path that cannot be read, and a thread got {} from
\* compare_snapshots
C13_Witness ==
    /\ snap_content = None
    /\ Unreadable(files, snap_path)
    /\ \A t \in Threads : Created(t) /\ caller[t].snapshot = EmptyDict
    /\ \E t \in Threads : caller[t].pc = "compared" /\ caller[t].report = EmptyDict

\* the value of a hexadecimal digit
HexValue(c) == (CHOOSE k \in 1..16 : HexDigits[k] = c) - 1

\* bytes.fromhex(s)
fromhex(s) == [k \in 1..(Len(s) \div 2) |-> (16 * HexValue(s[2 * k - 1])) + HexValue(s[2 * k])]

\* models.Snapshot: the content setter (src/models.py:156-161) on a record
\* with the fields compressed_content and size_bytes
Snapshot_set_content(record, v) ==
    [record EXCEPT !.compressed_content = zlib_compress(utf8_encode(v).value),
                   !.size_bytes = Len(v)]

\* models.Snapshot: the content getter (src/models.py:151-154)
Snapshot_content(record) ==
    LET z == zlib_decompress(record.compressed_content)
    IN  IF z.raised THEN z ELSE utf8_decode(z.value)

\* C14: for every snapshot that create_snapshot produces, and for every
\* stored Snapshot record, decompressing the compressed content gives exactly
\* the raw content, also for the empty string and for non-ASCII text; setting
\* Snapshot.content sets size_bytes to the number of characters.
C14_CompressedRoundTrip ==
    \A t \in Threads :
        (Created(t) /\ caller[t].snapshot # EmptyDict) =>
            LET s == caller[t].snapshot
                stored == Snapshot_set_content(
                              [compressed_content |-> << >>, size_bytes |-> 0], s.content)
            IN  /\ s.compressed_content # None
                /\ decompress_content(fromhex(s.compressed_content)) = [raised |-> FALSE, value |-> s.content]
                /\ Snapshot_content(stored) = [raised |-> FALSE, value |-> s.content]
                /\ stored.size_bytes = Len(s.content)

\* a snapshot without the two fields read from the clock and the file system
Timeless(s) == [k \in DOMAIN s \ {"timestamp", "file_modified"} |-> s[k]]

-----------------------------------------------------------------------------
(* compare_snapshots on its own, given snapshots that create_snapshot made  *)
(* and snapshot dicts from elsewhere that lack keys                         *)

\* the texts of the snapshots compared
CompareTexts ==
    {<< >>,
     <<"x">>,
     <<"#", " ", "c", "\n", "x", "\n">>,
     <<"d", "e", "f", " ", "f", "(", ")", ":", "\n", "#", " ", "c", "\n", "x", "\n">>}

\* snapshot dicts that hold some of the keys only: no metrics, the line
\* counts alone, one count alone, another count alone
PartialSnapshots ==
    {[content |-> <<"x">>, size |-> 1],
     [content |-> <<"x">>, metrics |-> [total_lines |-> 1, code_lines |-> 1]],
     [content |-> <<"x", "\n">>, metrics |-> [total_lines |-> 1, blank_lines |-> 0]],
     [metrics |-> [todo_count |-> 0, function_count |-> 2]]}

\* the snapshots given to compare_snapshots
ComparedSnapshots ==
    {EmptyDict}
        \cup {build_snapshot(p, c, 0, t) :
                  p \in {DiskPath, <<"b", ".", "t", "x", "t">>},
                  c \in CompareTexts, t \in {1, MaxClock}}
        \cup PartialSnapshots

InitCompare ==
    /\ pc = "compare_start"
    /\ cmp_old \in ComparedSnapshots
    /\ cmp_new \in ComparedSnapshots
    /\ report = EmptyDict
    /\ UiIdle /\ DiffIdle /\ SigIdle /\ CodeIdle /\ SnapIdle /\ AiIdle

\* report = compare_snapshots(cmp_old, cmp_new)
CompareSnapshotDicts ==
    /\ pc = "compare_start"
    /\ report' = compare_snapshots(cmp_old, cmp_new)
    /\ pc' = "compared"
    /\ UNCHANGED <<cmp_old, cmp_new>>
    /\ UNCHANGED <<uiVars, diffVars, sigVars, codeVars, snapVars, aiVars>>

NextCompare == CompareSnapshotDicts

SpecCompare == InitCompare /\ [][NextCompare]_vars

\* the metric keys of the two compared snapshots, and a metric of each side,
\* a key that is absent counting as 0
MetricKeys == DOMAIN Get(cmp_old, "metrics", EmptyDict) \cup DOMAIN Get(cmp_new, "metrics", EmptyDict)
OldMetric(key) == Get(Get(cmp_old, "metrics", EmptyDict), key, 0)
NewMetric(key) == Get(Get(cmp_new, "metrics", EmptyDict), key, 0)

\* the entries of the metrics delta are {old, new, change = new - old}
DeltaEntriesRight ==
    \A key \in DOMAIN report.metrics_changes :
        report.metrics_changes[key] =
            [old |-> OldMetric(key), new |-> NewMetric(key),
             change |-> NewMetric(key) - OldMetric(key)]

\* C12 (as claimed): the metrics delta of compare_snapshots has an entry
\* {old, new, change = new - old} for every metric key of either snapshot, a
\* key absent on one side counting as 0, the keys of equal value included.
C12_EveryKey ==
    (pc = "compared" /\ report # EmptyDict) =>
        (DOMAIN report.metrics_changes = MetricKeys /\ DeltaEntriesRight)

\* C12 (amended): the metrics delta has an entry {old, new, change = new -
\* old} for exactly the metric keys of either snapshot whose values differ, a
\* key absent on one side counting as 0; a key of equal value has no entry.
C12_ChangedKeys ==
    (pc = "compared" /\ report # EmptyDict) =>
        /\ DOMAIN report.metrics_changes = {key \in MetricKeys : OldMetric(key) # NewMetric(key)}
        /\ DeltaEntriesRight

\* C12 witness: a report whose delta has an entry for a key present on one
\* side only, and none for a key of equal value
C12_Witness ==
    /\ pc = "compared"
    /\ report # EmptyDict
    /\ \E key \in DOMAIN report.metrics_changes :
           key \notin DOMAIN Get(cmp_old, "metrics", EmptyDict)
    /\ \E key \in MetricKeys : key \notin DOMAIN report.metrics_changes

-----------------------------------------------------------------------------
(* retry_on_error (src/ai_helper.py:146-195)                                *)

\* the largest max_retries given to retry_on_error
MaxRetries == 2

\* the exception classes that arise, each with the classes it derives from
\* (itself included)
ExceptionBases ==
    [c \in {"requests.ConnectionError", "requests.Timeout", "requests.HTTPError",
            "requests.TooManyRedirects", "TimeoutError", "ValueError", "KeyError",
            "IndexError", "TypeError", "KeyboardInterrupt"} |->
        CASE c \in {"requests.ConnectionError", "requests.Timeout", "requests.HTTPError",
                    "requests.TooManyRedirects"} ->
                 {c, "requests.RequestException", "OSError", "Exception", "BaseException"}
          [] c = "TimeoutError" -> {c, "OSError", "Exception", "BaseException"}
          [] c \in {"KeyError", "IndexError"} ->
                 {c, "LookupError", "Exception", "BaseException"}
          [] c = "KeyboardInterrupt" -> {c, "BaseException"}
          [] OTHER -> {c, "Exception", "BaseException"}]

\* isinstance that holds of every exception
IsInstance_of_any(c, classes) == TRUE

\* isinstance(e, classes) for an exception of class c
IsInstance(c, classes) == ExceptionBases[c] \cap classes # {}

\* the default of allowed_exceptions
DefaultAllowed == {"requests.RequestException", "ConnectionError", "TimeoutError"}

\* base ** n
RECURSIVE Pow(_, _)
Pow(base, n) == IF n = 0 THEN 1 ELSE base * Pow(base, n - 1)

\* the wrapper when it is entered (lines 163-167); max_retries and
\* backoff_factor are the decorator's arguments, None standing for the
\* value of the configuration
enter_wrapper(max_retries, backoff_factor, allowed_exceptions, cfg) ==
    [max_retries |-> IF max_retries # NoneInt THEN max_retries ELSE cfg.retries,
     backoff_factor |->
         IF backoff_factor # NoneInt THEN backoff_factor ELSE cfg.backoff_factor,
     allowed_exceptions |-> allowed_exceptions,
     retries |-> 0,
     last_exception |-> None,
     status |-> "running",
     value |-> None,
     slept |-> << >>]

\* what one call of the wrapped function did: it returned a value, or it
\* raised an exception
Returned(v) == [raised |-> FALSE, value |-> v]
Raised(class, call) == [raised |-> TRUE, value |-> <<class, call>>]

\* wrapper_turn that gives up one retry early
wrapper_turn_one_fewer(w, out) ==
    IF ~out.raised
    THEN [w EXCEPT !.status = "returned", !.value = out.value]
    ELSE IF IsInstance(out.value[1], w.allowed_exceptions)
    THEN IF w.retries + 1 >= w.max_retries
         THEN [w EXCEPT !.last_exception = out.value,
                        !.retries = @ + 1,
                        !.status = "raised",
                        !.value = out.value]
         ELSE [w EXCEPT !.last_exception = out.value,
                        !.retries = @ + 1,
                        !.slept = Append(@, Pow(w.backoff_factor, w.retries + 1))]
    ELSE [w EXCEPT !.status = "raised", !.value = out.value]

\* one turn of the while loop (lines 169-185) around a call of func whose
\* outcome is out, and lines 187-190 when the loop is left: the wrapper
\* returns the value, raises, or sleeps and stays in the loop.  (max_retries
\* is not negative in the explored calls, so the loop is entered.)
wrapper_turn(w, out) ==
    IF ~out.raised
    THEN [w EXCEPT !.status = "returned", !.value = out.value]
    ELSE IF IsInstance(out.value[1], w.allowed_exceptions)
    THEN IF w.retries + 1 > w.max_retries
         THEN [w EXCEPT !.last_exception = out.value,
                        !.retries = @ + 1,
                        !.status = "raised",
                        !.value = out.value]
         ELSE [w EXCEPT !.last_exception = out.value,
                        !.retries = @ + 1,
                        !.slept = Append(@, Pow(w.backoff_factor, w.retries + 1))]
    ELSE [w EXCEPT !.status = "raised", !.value = out.value]

\* what the mock function does at each call: return, or raise this class
SideEffects == {"return", "requests.ConnectionError", "TimeoutError", "ValueError",
                "KeyboardInterrupt"}

\* the outcome of call number n of the mock function
mock_call(effects, n) ==
    IF effects[n] = "return" THEN Returned(<<"value", FormatInt(n)>>)
    ELSE Raised(effects[n], FormatInt(n))

InitRetry ==
    /\ pc = "retry"
    /\ config = DefaultConfig
    /\ side_effect \in [1..(Max(MaxRetries, DefaultRetries) + 1) -> SideEffects]
    /\ \E n \in {NoneInt} \cup 0..MaxRetries, b \in {NoneInt, 1, 3},
          allowed \in {DefaultAllowed, {"ValueError"}} :
           wrapper = enter_wrapper(n, b, allowed, config)
    /\ call_count = 0
    /\ UiIdle /\ DiffIdle /\ SigIdle /\ CodeIdle /\ SnapIdle /\ CompareIdle
    /\ CacheIdle /\ LocalIdle

\* the wrapper calls the mock function once more and handles what it does
CallWrapped ==
    /\ pc = "retry"
    /\ wrapper.status = "running"
    /\ call_count' = call_count + 1
    /\ wrapper' = wrapper_turn(wrapper, mock_call(side_effect, call_count + 1))
    /\ UNCHANGED <<pc, config, side_effect>>
    /\ UNCHANGED <<uiVars, diffVars, sigVars, codeVars, snapVars, compareVars, cacheVars, localVars>>

NextRetry == CallWrapped

SpecRetry == InitRetry /\ [][NextRetry]_vars

\* call number i of the wrapped function raises an exception that is an
\* instance of one of the wrapper's allowed classes
RaisesAllowed(i) ==
    /\ side_effect[i] # "return"
    /\ \E base \in ExceptionBases[side_effect[i]] : base \in wrapper.allowed_exceptions

\* call number i raises an exception that is an instance of none of them
RaisesOther(i) ==
    /\ side_effect[i] # "return"
    /\ \A base \in ExceptionBases[side_effect[i]] : base \notin wrapper.allowed_exceptions

\* C16: a function wrapped by retry_on_error(max_retries=n) that raises an
\* allowed exception at every call is called exactly n + 1 times, and then
\* the last exception is raised; if it succeeds first at call k <= n + 1, it
\* is called exactly k times and the wrapper returns its value.
C16_RetryCount ==
    pc = "retry" =>
        LET n == wrapper.max_retries
        IN  /\ (\A i \in 1..(n + 1) : RaisesAllowed(i)) =>
                /\ call_count <= n + 1
                /\ wrapper.status # "returned"
                /\ wrapper.status = "raised" =>
                       /\ call_count = n + 1
                       /\ wrapper.value = <<side_effect[n + 1], FormatInt(n + 1)>>
            /\ \A k \in 1..(n + 1) :
                   (side_effect[k] = "return" /\ \A i \in 1..(k - 1) : RaisesAllowed(i)) =>
                       /\ call_count <= k
                       /\ wrapper.status # "raised"
                       /\ wrapper.status = "returned" =>
                              /\ call_count = k
                              /\ wrapper.value = <<"value", FormatInt(k)>>

\* C16 witness: with max_retries = n > 0 the function has failed n + 1 times
\* with an allowed exception and the wrapper has raised the last one
C16_Witness ==
    /\ pc = "retry"
    /\ wrapper.max_retries > 0
    /\ \A i \in 1..(wrapper.max_retries + 1) : RaisesAllowed(i)
    /\ wrapper.status = "raised"
    /\ call_count = wrapper.max_retries + 1

\* C17: a function wrapped by retry_on_error that raises an exception outside
\* allowed_exceptions is called exactly once: the exception is raised to the
\* caller at once, with no retry and no wait, whatever the retries left; and
\* likewise at a later call, which is then the last.
C17_NoRetryOfOthers ==
    pc = "retry" =>
        \A k \in 1..call_count :
            RaisesOther(k) =>
                /\ call_count = k
                /\ wrapper.status = "raised"
                /\ wrapper.value = <<side_effect[k], FormatInt(k)>>
                /\ Len(wrapper.slept) = k - 1

\* C17 witness: the first call raised an exception outside the allowed
\* classes with retries left, and the wrapper raised it without a wait
C17_Witness ==
    /\ pc = "retry"
    /\ wrapper.max_retries > 0
    /\ RaisesOther(1)
    /\ call_count = 1
    /\ wrapper.status = "raised"
    /\ wrapper.slept = << >>

-----------------------------------------------------------------------------
(* The response cache (src/ai_helper.py:95-143)                             *)

\* the calls of the cache functions made in one run
MaxCacheCalls == 3

\* the keys of the explored calls, and the response that call number n
\* stores: each call of cache_response has a response of its own
CacheKeys == {<<"k", "1">>, <<"k", "2">>}
Responses == [n \in 1..MaxCacheCalls |-> <<"r">> \o FormatInt(n)]

\* the values given to config.cache_ttl
CacheTtls == {0, 1, DefaultCacheTtl}

\* cache_response that keeps the response a key already has
cache_response_keep_first(cache, cfg, key, response, now) ==
    IF ~cfg.cache_enabled THEN cache
    ELSE [k \in DOMAIN cache \cup {key} |->
             IF k \in DOMAIN cache THEN cache[k]
             ELSE [response |-> response, timestamp |-> now]]

\* cache_response(key, response) at time now: the cache afterwards
cache_response(cache, cfg, key, response, now) ==
    IF ~cfg.cache_enabled THEN cache
    ELSE [k \in DOMAIN cache \cup {key} |->
             IF k = key THEN [response |-> response, timestamp |-> now] ELSE cache[k]]

\* del response_cache[key]
Delete(cache, key) == [k \in DOMAIN cache \ {key} |-> cache[k]]

\* get_cached_response(key) at time now: the value returned and the cache
\* afterwards
get_cached_response(cache, cfg, key, now) ==
    IF ~cfg.cache_enabled \/ key \notin DOMAIN cache
    THEN [value |-> None, cache |-> cache]
    ELSE IF now - cache[key].timestamp > cfg.cache_ttl
    THEN [value |-> None, cache |-> Delete(cache, key)]
    ELSE [value |-> cache[key].response, cache |-> cache]

\* clear_cache(): the cache afterwards
clear_cache(cache) == EmptyDict

InitCache ==
    /\ pc = "cache"
    /\ config \in {[DefaultConfig EXCEPT !.cache_enabled = e, !.cache_ttl = ttl] :
                       e \in BOOLEAN, ttl \in CacheTtls}
    /\ clock = 0
    /\ response_cache = EmptyDict
    /\ calls = << >>
    /\ UiIdle /\ DiffIdle /\ SigIdle /\ CodeIdle /\ SnapCallsIdle /\ CompareIdle
    /\ RetryIdle /\ LocalIdle

\* time.time() advances
CacheTick ==
    /\ pc = "cache"
    /\ clock < MaxClock
    /\ clock' = clock + 1
    /\ UNCHANGED <<pc, config, response_cache, calls>>
    /\ UNCHANGED <<uiVars, diffVars, sigVars, codeVars, files, snap_path, snap_content, caller,
                   compareVars, retryVars, localVars>>

\* the application sets config.cache_enabled
SetCacheEnabled ==
    /\ pc = "cache"
    /\ Len(calls) < MaxCacheCalls
    /\ config' = [config EXCEPT !.cache_enabled = ~@]
    /\ UNCHANGED <<pc, clock, response_cache, calls>>
    /\ UNCHANGED <<uiVars, diffVars, sigVars, codeVars, files, snap_path, snap_content, caller,
                   compareVars, retryVars, localVars>>

\* cache_response(key, response)
CacheResponse ==
    /\ pc = "cache"
    /\ Len(calls) < MaxCacheCalls
    /\ \E key \in CacheKeys :
           LET response == Responses[Len(calls) + 1]
           IN  /\ response_cache' =
                      cache_response(response_cache, config, key, response, clock)
               /\ calls' = Append(calls, [op |-> "cache_response", key |-> key,
                                          value |-> response, time |-> clock,
                                          config |-> config, before |-> response_cache])
    /\ UNCHANGED <<pc, clock, config>>
    /\ UNCHANGED <<uiVars, diffVars, sigVars, codeVars, files, snap_path, snap_content, caller,
                   compareVars, retryVars, localVars>>

\* get_cached_response(key)
GetCachedResponse ==
    /\ pc = "cache"
    /\ Len(calls) < MaxCacheCalls
    /\ \E key \in CacheKeys :
           LET got == get_cached_response(response_cache, config, key, clock)
           IN  /\ response_cache' = got.cache
               /\ calls' = Append(calls, [op |-> "get_cached_response", key |-> key,
                                          value |-> got.value, time |-> clock,
                                          config |-> config, before |-> response_cache])
    /\ UNCHANGED <<pc, clock, config>>
    /\ UNCHANGED <<uiVars, diffVars, sigVars, codeVars, files, snap_path, snap_content, caller,
                   compareVars, retryVars, localVars>>

\* clear_cache()
ClearCache ==
    /\ pc = "cache"
    /\ Len(calls) < MaxCacheCalls
    /\ response_cache' = clear_cache(response_cache)
    /\ calls' = Append(calls, [op |-> "clear_cache", key |-> None, value |-> None,
                               time |-> clock, config |-> config,
                               before |-> response_cache])
    /\ UNCHANGED <<pc, clock, config>>
    /\ UNCHANGED <<uiVars, diffVars, sigVars, codeVars, files, snap_path, snap_content, caller,
                   compareVars, retryVars, localVars>>

NextCache ==
    \/ CacheTick
    \/ SetCacheEnabled
    \/ CacheResponse
    \/ GetCachedResponse
    \/ ClearCache

SpecCache == InitCache /\ [][NextCache]_vars

\* call number i stored a response under key: cache_response(key, r) with the
\* cache enabled
Stored(i, key) ==
    /\ calls[i].op = "cache_response"
    /\ calls[i].key = key
    /\ calls[i].config.cache_enabled

\* call number j is get_cached_response with the cache enabled
Looked(j) == calls[j].op = "get_cached_response" /\ calls[j].config.cache_enabled

\* C18: with the cache enabled and an entry younger than the TTL,
\* get_cached_response(key) returns the response stored by the most recent
\* cache_response(key, r); after clear_cache() it returns None for every key
\* (until a response is stored under the key again).
C18_CacheHit ==
    pc = "cache" =>
        \A j \in 1..Len(calls) :
            Looked(j) =>
                \A i \in 1..(j - 1) :
                    /\ (/\ Stored(i, calls[j].key)
                        /\ \A m \in (i + 1)..(j - 1) :
                               ~Stored(m, calls[j].key) /\ calls[m].op # "clear_cache"
                        /\ calls[j].time - calls[i].time < calls[j].config.cache_ttl)
                           => calls[j].value = calls[i].value
                    /\ (/\ calls[i].op = "clear_cache"
                        /\ \A m \in (i + 1)..(j - 1) : ~Stored(m, calls[j].key))
                           => calls[j].value = None

\* C18 witness: a response was stored under a key that held another one, time
\* passed, and the key was looked up before the entry was as old as the TTL:
\* the later response was returned
C18_Witness ==
    /\ pc = "cache"
    /\ \E j \in 2..Len(calls) :
           /\ Looked(j)
           /\ Stored(j - 1, calls[j].key)
           /\ calls[j].key \in DOMAIN calls[j - 1].before
           /\ calls[j - 1].before[calls[j].key].response # calls[j - 1].value
           /\ calls[j].time > calls[j - 1].time
           /\ calls[j].time - calls[j - 1].time < calls[j].config.cache_ttl
           /\ calls[j].value = calls[j - 1].value

\* C19: with cache_ttl = 0 an entry expires at once: get_cached_response(key)
\* called right after cache_response(key, r), at any elapsed time, zero
\* included, returns None and removes the entry from the cache.
C19_ZeroTtl ==
    pc = "cache" =>
        \A j \in 2..Len(calls) :
            (/\ Looked(j)
             /\ calls[j].config.cache_ttl = 0
             /\ Stored(j - 1, calls[j].key))
                => /\ calls[j].value = None
                   /\ j = Len(calls) => calls[j].key \notin DOMAIN response_cache

-----------------------------------------------------------------------------
(* call_local_model (src/ai_helper.py:290-383), wrapped by retry_on_error() *)

\* a JSON value as json() returns it: a dict, a list, a str or None
Obj(members) == [object |-> members]
Arr(items) == [array |-> items]
Str(chars) == [string |-> chars]
Null == [null |-> TRUE]

IsObj(x) == "object" \in DOMAIN x
IsArr(x) == "array" \in DOMAIN x
IsStr(x) == "string" \in DOMAIN x

\* the chars of a key, a key being written as a string of the model
KeyChars(key) ==
    CASE key = "choices" -> <<"c", "h", "o", "i", "c", "e", "s">>
      [] key = "message" -> <<"m", "e", "s", "s", "a", "g", "e">>
      [] key = "content" -> <<"c", "o", "n", "t", "e", "n", "t">>

\* key in x
py_contains(key, x) ==
    IF IsObj(x) THEN Returned(key \in DOMAIN x.object)
    ELSE IF IsArr(x)
    THEN Returned(\E k \in 1..Len(x.array) : x.array[k] = Str(KeyChars(key)))
    ELSE IF IsStr(x) THEN Returned(Contains(x.string, KeyChars(key)))
    ELSE Raised("TypeError", "in")

\* len(x)
py_len(x) ==
    IF IsObj(x) THEN Returned(Cardinality(DOMAIN x.object))
    ELSE IF IsArr(x) THEN Returned(Len(x.array))
    ELSE IF IsStr(x) THEN Returned(Len(x.string))
    ELSE Raised("TypeError", "len")

\* x[key] for a str key
py_getitem(x, key) ==
    IF IsObj(x)
    THEN IF key \in DOMAIN x.object THEN Returned(x.object[key])
         ELSE Raised("KeyError", key)
    ELSE Raised("TypeError", "getitem")

\* x[0]
py_first(x) ==
    IF IsArr(x)
    THEN IF Len(x.array) > 0 THEN Returned(x.array[1]) ELSE Raised("IndexError", "0")
    ELSE IF IsStr(x)
    THEN IF Len(x.string) > 0 THEN Returned(Str(<<x.string[1]>>))
         ELSE Raised("IndexError", "0")
    ELSE IF IsObj(x) THEN Raised("KeyError", "0")
    ELSE Raised("TypeError", "getitem")

\* "[Lỗi] " + the error message; the message is written by its meaning
ErrorPrefix == <<"[", "L", "U+1ED7", "i", "]", " ">>
ErrorText(error_msg) == ErrorPrefix \o <<error_msg>>

\* lines 338-352: what the function makes of the decoded response
read_response(data) ==
    LET has_choices == py_contains("choices", data)
        choices == py_getitem(data, "choices")
        count == py_len(choices.value)
        first == py_first(choices.value)
        has_message == py_contains("message", first.value)
        message == py_getitem(first.value, "message")
        has_content == py_contains("content", message.value)
        content_value == py_getitem(message.value, "content")
        length == py_len(content_value.value)
    IN  IF has_choices.raised THEN has_choices
        ELSE IF ~has_choices.value THEN Returned(ErrorText("no result from the LLM server"))
        ELSE IF choices.raised THEN choices
        ELSE IF count.raised THEN count
        ELSE IF count.value = 0 THEN Returned(ErrorText("no result from the LLM server"))
        ELSE IF first.raised THEN first
        ELSE IF has_message.raised THEN has_message
        ELSE IF ~has_message.value THEN Returned(ErrorText("malformed result"))
        ELSE IF message.raised THEN message
        ELSE IF has_content.raised THEN has_content
        ELSE IF ~has_content.value THEN Returned(ErrorText("malformed result"))
        ELSE IF content_value.raised THEN content_value
        ELSE IF length.raised THEN length
        ELSE Returned(content_value.value.string)

\* what requests.post does: it raises, or it returns a response with a
\* status and a body that is JSON or is not
NetworkError(class) == [error |-> class]
HttpResponse(status_code, body) == [status_code |-> status_code, body |-> body]
NotJson == [invalid |-> TRUE]

\* lines 332-335: requests.post, raise_for_status and json()
post_json(response) ==
    IF "error" \in DOMAIN response THEN Raised(response.error, "post")
    ELSE IF response.status_code >= 400 THEN Raised("requests.HTTPError", "raise_for_status")
    ELSE IF response.body = NotJson THEN Raised("ValueError", "json")
    ELSE Returned(response.body)

\* the except clauses of lines 354-383: the message returned for an exception
handled(class) ==
    IF IsInstance(class, {"requests.ConnectionError"})
    THEN ErrorText("cannot connect")
    ELSE IF IsInstance(class, {"requests.Timeout"}) THEN ErrorText("request timed out")
    ELSE IF IsInstance(class, {"requests.HTTPError"}) THEN ErrorText("HTTP error")
    ELSE IF IsInstance(class, {"ValueError"}) THEN ErrorText("cannot process the JSON response")
    ELSE IF IsInstance(class, {"KeyError"}) THEN ErrorText("missing field in the result")
    ELSE ErrorText("unknown error")

\* validate_prompt(prompt)
validate_prompt(text) == Len(Strip(text)) > 0

\* call_local_model without its except clauses
call_local_model_unhandled(text, response) ==
    IF ~validate_prompt(text)
    THEN [outcome |-> Returned(ErrorText("invalid prompt")), requests |-> 0]
    ELSE LET data == post_json(response)
             read == read_response(data.value)
         IN  [outcome |-> IF data.raised THEN data ELSE read,
              requests |-> 1]

\* call_local_model(prompt) when requests.post does what response says:
\* what the function does and the number of requests it makes
call_local_model(text, response) ==
    IF ~validate_prompt(text)
    THEN [outcome |-> Returned(ErrorText("invalid prompt")), requests |-> 0]
    ELSE LET data == post_json(response)
             read == read_response(data.value)
             raised == IF data.raised THEN data ELSE read
         IN  [outcome |->
                  IF ~raised.raised THEN read
                  ELSE IF IsInstance(raised.value[1], {"Exception"})
                  THEN Returned(handled(raised.value[1]))
                  ELSE raised,
              requests |-> 1]

\* the bodies a server answers with: the expected one, and bodies that lack
\* a part or hold a part of another type
Answer(content_value) ==
    Obj([choices |-> Arr(<<Obj([message |-> Obj([content |-> content_value])])>>)])

ResponseBodies ==
    {Answer(Str(<<"h", "i">>)),
     Answer(Null),
     Obj(<< >>),
     Obj([choices |-> Arr(<< >>)]),
     Obj([choices |-> Null]),
     Obj([choices |-> Arr(<<Obj(<< >>)>>)]),
     Obj([choices |-> Arr(<<Null>>)]),
     Obj([choices |-> Arr(<<Obj([message |-> Obj(<< >>)])>>)]),
     Obj([choices |-> Arr(<<Obj([message |-> Null])>>)]),
     Arr(<<Str(<<"c", "h", "o", "i", "c", "e", "s">>)>>),
     Null}

\* what requests.post may do
PostOutcomes ==
    {NetworkError(c) : c \in {"requests.ConnectionError", "requests.Timeout",
                              "requests.TooManyRedirects"}}
        \cup {HttpResponse(500, NotJson), HttpResponse(200, NotJson)}
        \cup {HttpResponse(200, b) : b \in ResponseBodies}

\* the prompts: empty, blank, valid
Prompts == {<< >>, <<" ">>, <<"h", "i">>}

InitLocal ==
    /\ pc = "local_model"
    /\ config = DefaultConfig
    /\ prompt \in Prompts
    /\ responses \in [1..(DefaultRetries + 1) -> PostOutcomes]
    /\ request_count = 0
    /\ wrapper = enter_wrapper(NoneInt, NoneInt, DefaultAllowed, config)
    /\ side_effect = << >>
    /\ call_count = 0
    /\ UiIdle /\ DiffIdle /\ SigIdle /\ CodeIdle /\ SnapIdle /\ CompareIdle /\ CacheIdle

\* the wrapper calls call_local_model once more and handles what it does
CallLocalModel ==
    /\ pc = "local_model"
    /\ wrapper.status = "running"
    /\ LET called == call_local_model(prompt, responses[request_count + 1])
       IN  /\ wrapper' = wrapper_turn(wrapper, called.outcome)
           /\ request_count' = request_count + called.requests
    /\ call_count' = call_count + 1
    /\ UNCHANGED <<pc, config, side_effect, prompt, responses>>
    /\ UNCHANGED <<uiVars, diffVars, sigVars, codeVars, snapVars, compareVars, cacheVars>>

NextLocal == CallLocalModel

SpecLocal == InitLocal /\ [][NextLocal]_vars

\* the body of a response has choices, a first choice with a message, and a
\* message with content
HasContent(body) ==
    /\ "object" \in DOMAIN body
    /\ "choices" \in DOMAIN body.object
    /\ "array" \in DOMAIN body.object.choices
    /\ Len(body.object.choices.array) > 0
    /\ LET choice == body.object.choices.array[1]
       IN  /\ "object" \in DOMAIN choice
           /\ "message" \in DOMAIN choice.object
           /\ "object" \in DOMAIN choice.object.message
           /\ "content" \in DOMAIN choice.object.message.object

\* the request fails (connection error, timeout, another error of the
\* transport, an HTTP error status), or its response is not JSON or lacks
\* choices, message or content
RequestFails(response) ==
    \/ "error" \in DOMAIN response
    \/ "status_code" \in DOMAIN response /\ response.status_code >= 400
    \/ "status_code" \in DOMAIN response /\ response.body = NotJson
    \/ "status_code" \in DOMAIN response /\ response.body # NotJson
           /\ ~HasContent(response.body)

\* C20: when the HTTP request fails (connection error, timeout, HTTP error)
\* or the response lacks choices, message or content, call_local_model does
\* not raise: it makes exactly one request, which the retry wrapper does not
\* repeat, and returns a string that begins with "[Lỗi]".
C20_ErrorString ==
    (/\ pc = "local_model"
     /\ call_count > 0
     /\ Strip(prompt) # << >>
     /\ RequestFails(responses[1]))
        => /\ wrapper.status = "returned"
           /\ call_count = 1
           /\ request_count = 1
           /\ Len(wrapper.value) >= 5
           /\ SubSeq(wrapper.value, 1, 5) = <<"[", "L", "U+1ED7", "i", "]">>

\* C20 witness: the only request ended in a connection error, and the
\* function returned an error string
C20_Witness ==
    /\ pc = "local_model"
    /\ responses[1] = NetworkError("requests.ConnectionError")
    /\ request_count = 1
    /\ call_count = 1
    /\ wrapper.status = "returned"
    /\ SubSeq(wrapper.value, 1, 5) = <<"[", "L", "U+1ED7", "i", "]">>

-----------------------------------------------------------------------------
(* The Kanban board of the main window (src/main.py): KanbanColumn.dropEvent *)
(* and MainWindow.move_task.  A task of MainWindow.tasks is the record of    *)
(* its fields that the two methods read or write; a column is the sequence   *)
(* of the task ids of its cards.                                             *)

\* the statuses of the three columns, in the order the columns are built
ColumnStatuses == <<"todo", "in_progress", "done">>
IsColumn(status) == \E k \in 1..Len(ColumnStatuses) : ColumnStatuses[k] = status

\* KanbanColumn.add_task(task_id, ...): the card goes below the other cards
add_task(cards, task_id) == Append(cards, task_id)

\* KanbanColumn.remove_task(task_id): the first card of the task is removed
remove_task(cards, task_id) ==
    IF \E i \in 1..Len(cards) : cards[i] = task_id
    THEN LET i == CHOOSE i \in 1..Len(cards) :
                      cards[i] = task_id /\ \A j \in 1..(i - 1) : cards[j] # task_id
         IN  SubSeq(cards, 1, i - 1) \o SubSeq(cards, i + 1, Len(cards))
    ELSE cards

\* MainWindow.move_task(task_id, new_status): the tasks, the columns and the
\* number of server updates started (run_in_thread) afterwards
move_task(ts, bd, started, task_id, new_status) ==
    IF task_id \notin DOMAIN ts
    THEN [tasks |-> [t \in DOMAIN ts \cup {task_id} |->
                        IF t = task_id THEN [status |-> new_status] ELSE ts[t]],
          board |-> bd, moves_started |-> started]
    ELSE LET old_status == ts[task_id].status
             removed == IF IsColumn(old_status)
                        THEN [bd EXCEPT ![old_status] = remove_task(@, task_id)]
                        ELSE bd
             added == IF IsColumn(new_status)
                      THEN [removed EXCEPT ![new_status] = add_task(@, task_id)]
                      ELSE removed
         IN  IF old_status = new_status
             THEN [tasks |-> ts, board |-> bd, moves_started |-> started]
             ELSE [tasks |-> [ts EXCEPT ![task_id].status = new_status],
                   board |-> added,
                   moves_started |-> started + 1]

\* the data dragged: the formats it has and the task id it gives for each
MimeData(formats, task_id) == [formats |-> formats, task_id |-> task_id]

\* dropEvent, lines 659-666: the task id read from the MIME data, "" if none
dropped_task_id(mime) ==
    IF "application/x-task" \in mime.formats THEN mime.task_id
    ELSE IF "text/plain" \in mime.formats THEN mime.task_id
    ELSE ""

\* dropEvent, lines 670-680: the status of the first column that holds a card
\* of the task, "" if no column does
source_column(bd, task_id) ==
    IF \E k \in 1..Len(ColumnStatuses) :
           \E i \in 1..Len(bd[ColumnStatuses[k]]) : bd[ColumnStatuses[k]][i] = task_id
    THEN ColumnStatuses[CHOOSE k \in 1..Len(ColumnStatuses) :
             /\ \E i \in 1..Len(bd[ColumnStatuses[k]]) : bd[ColumnStatuses[k]][i] = task_id
             /\ \A j \in 1..(k - 1) :
                    \A i \in 1..Len(bd[ColumnStatuses[j]]) : bd[ColumnStatuses[j]][i] # task_id]
    ELSE ""

\* dropEvent without the test of the source widget
dropEvent_any_source(ts, bd, started, status, source, mime) ==
    LET task_id == dropped_task_id(mime)
        from == source_column(bd, task_id)
        ignored == [tasks |-> ts, board |-> bd, moves_started |-> started,
                    accepted |-> FALSE]
    IN  IF task_id = "" THEN ignored
        ELSE IF from = "" THEN ignored
        ELSE IF from # status
        THEN LET moved == move_task(ts, bd, started, task_id, status)
             IN  [tasks |-> moved.tasks, board |-> moved.board,
                  moves_started |-> moved.moves_started, accepted |-> TRUE]
        ELSE [tasks |-> ts, board |-> bd, moves_started |-> started, accepted |-> TRUE]

\* KanbanColumn.dropEvent(event) of the column of this status, taskMoved being
\* connected to move_task: what is left afterwards and whether the event was
\* accepted.  source is the class of event.source(), "None" if there is none
dropEvent(ts, bd, started, status, source, mime) ==
    LET task_id == dropped_task_id(mime)
        from == source_column(bd, task_id)
        ignored == [tasks |-> ts, board |-> bd, moves_started |-> started,
                    accepted |-> FALSE]
    IN  IF source = "QPushButton" THEN ignored
        ELSE IF task_id = "" THEN ignored
        ELSE IF from = "" THEN ignored
        ELSE IF from # status
        THEN LET moved == move_task(ts, bd, started, task_id, status)
             IN  [tasks |-> moved.tasks, board |-> moved.board,
                  moves_started |-> moved.moves_started, accepted |-> TRUE]
        ELSE [tasks |-> ts, board |-> bd, moves_started |-> started, accepted |-> TRUE]

\* the server updates started in one run
MaxMoves == 3

\* the tasks of the board at the start, a task id that is not among them,
\* and the statuses given to move_task: those of the columns and another one
KnownTasks == {"T1", "T2"}
TaskIds == KnownTasks \cup {"T9"}
Statuses == {"todo", "in_progress", "done", "archived"}

\* what a drop brings: the widget it comes from and the data
DropSources == {"TaskCard", "QPushButton", "None"}
DropData ==
    {MimeData({"text/plain", "application/x-task"}, t) : t \in TaskIds}
        \cup {MimeData({"text/plain"}, t) : t \in TaskIds \cup {""}}
        \cup {MimeData({}, "")}

\* the orders in which the cards of a set of tasks stand in a column
Orders(S) ==
    {q \in [1..Cardinality(S) -> S] : \A i, j \in 1..Cardinality(S) : i # j => q[i] # q[j]}

\* the window after the tasks are loaded: each task has its card, in the
\* column of its status
InitKanban ==
    /\ pc = "kanban"
    /\ tasks \in [KnownTasks -> {[status |-> ColumnStatuses[k]] : k \in 1..Len(ColumnStatuses)}]
    /\ board \in [{ColumnStatuses[k] : k \in 1..Len(ColumnStatuses)} ->
                     UNION {Orders(S) : S \in SUBSET KnownTasks}]
    /\ \A k \in 1..Len(ColumnStatuses) :
           board[ColumnStatuses[k]] \in
               Orders({t \in KnownTasks : tasks[t].status = ColumnStatuses[k]})
    /\ event = << >>
    /\ moves_started = 0
    /\ DiffIdle /\ SigIdle /\ CodeIdle /\ SnapIdle /\ CompareIdle /\ AiIdle
    /\ KanbanRestIdle

\* something is dropped on a column
DropEvent ==
    /\ pc = "kanban"
    /\ moves_started < MaxMoves
    /\ \E k \in 1..Len(ColumnStatuses), source \in DropSources, mime \in DropData :
           LET after == dropEvent(tasks, board, moves_started, ColumnStatuses[k], source, mime)
           IN  /\ tasks' = after.tasks
               /\ board' = after.board
               /\ moves_started' = after.moves_started
               /\ event' = [column |-> ColumnStatuses[k], source |-> source,
                            task_id |-> dropped_task_id(mime),
                            accepted |-> after.accepted, before |-> tasks,
                            from |-> source_column(board, dropped_task_id(mime))]
    /\ UNCHANGED pc
    /\ UNCHANGED <<diffVars, sigVars, codeVars, snapVars, compareVars, aiVars, kanbanRestVars>>

\* move_task is called: by the menu of a card, by an update of the task
MoveTask ==
    /\ pc = "kanban"
    /\ moves_started < MaxMoves
    /\ \E task_id \in TaskIds, new_status \in Statuses :
           LET after == move_task(tasks, board, moves_started, task_id, new_status)
           IN  /\ tasks' = after.tasks
               /\ board' = after.board
               /\ moves_started' = after.moves_started
    /\ event' = << >>
    /\ UNCHANGED pc
    /\ UNCHANGED <<diffVars, sigVars, codeVars, snapVars, compareVars, aiVars, kanbanRestVars>>

NextKanban == DropEvent \/ MoveTask

SpecKanban == InitKanban /\ [][NextKanban]_vars

CardsIn(status, task_id) == {i \in 1..Len(board[status]) : board[status][i] = task_id}

\* C29: board consistency under move_task: from a state where every task of
\* MainWindow.tasks has exactly one card, in the column of its status, after
\* any sequence of move_task calls every task of tasks still has exactly one
\* card, and it is in the column of the task's status.
C29_BoardConsistent ==
    pc = "kanban" =>
        \A t \in DOMAIN tasks :
            /\ tasks[t].status \in DOMAIN board
            /\ Cardinality(CardsIn(tasks[t].status, t)) = 1
            /\ \A s \in DOMAIN board \ {tasks[t].status} : CardsIn(s, t) = {}

-----------------------------------------------------------------------------
(* apply_diff replayed line by line on any diff text (src/ultis.py:106-152) *)

\* longest diff text replayed, in lines
MaxPatchLines == 3

\* a well-formed header naming new-side line 0: line_idx becomes -1
HeaderBeforeFirst == <<"@", "@", " ", "-", "1", ",", "2", " ", "+", "0", ",", "0", " ", "@", "@">>

\* a well-formed header naming new-side line 2
HeaderSecondLine == <<"@", "@", " ", "-", "1", ",", "1", " ", "+", "2", ",", "1", " ", "@", "@">>

\* a header without lengths, as difflib writes one-line ranges: the pattern of
\* apply_diff does not match it
HeaderShort == <<"@", "@", " ", "-", "1", " ", "+", "1", " ", "@", "@">>

\* a file line of the diff header
FileLine == <<"-", "-", "-", " ", "f">>

\* the lines of the replayed diff texts
PatchLineSet ==
    {HeaderBeforeFirst, HeaderSecondLine, HeaderShort, FileLine,
     <<"+", "a">>, <<"-", "a">>, <<"-", "b">>, <<" ", "a">>}

\* every list of at most n lines of PatchLineSet
RECURSIVE PatchLists(_)
PatchLists(n) ==
    IF n = 0 THEN {<< >>}
    ELSE PatchLists(n - 1)
         \cup {ls \o <<l>> : ls \in {x \in PatchLists(n - 1) : Len(x) = n - 1},
                             l \in PatchLineSet}

\* the texts the diffs are replayed on
PatchTexts == {JoinLines(ls) : ls \in {<< >>, <<<<"a">>>>, <<<<"b">>, <<"a">>>>}}

InitReplay ==
    /\ pc = "replay_start"
    /\ patch_original \in PatchTexts
    /\ patch_diff \in {JoinLines(ls) : ls \in PatchLists(MaxPatchLines)}
    /\ patch_lines = << >>
    /\ patch_i = 0
    /\ patch_st = << >>
    /\ patch_prev = << >>
    /\ patch_result = NotApplied
    /\ DiffIdle /\ SigIdle /\ CodeIdle /\ SnapIdle /\ CompareIdle /\ AiIdle
    /\ ReplayRestIdle

\* apply_diff up to its second loop: the diff is split, its header skipped,
\* result_lines is a copy of the original lines and line_idx is 0
ReplayStart ==
    /\ pc = "replay_start"
    /\ LET diff_lines == SplitLines(patch_diff)
           start_idx == header_scan(diff_lines, 0, 0)
       IN  patch_lines' = Slice(diff_lines, start_idx, Len(diff_lines))
    /\ patch_st' = [result_lines |-> SplitLines(patch_original),
                    line_idx |-> 0, raised |-> FALSE]
    /\ pc' = "replaying"
    /\ UNCHANGED <<patch_original, patch_diff, patch_i, patch_prev, patch_result>>
    /\ UNCHANGED <<diffVars, sigVars, codeVars, snapVars, compareVars, aiVars, replayRestVars>>

\* one iteration of "for diff_line in diff_lines[start_idx:]"
ReplayLine ==
    /\ pc = "replaying"
    /\ patch_i < Len(patch_lines)
    /\ ~patch_st.raised
    /\ patch_prev' = patch_st
    /\ patch_st' = apply_line(patch_st, patch_lines[patch_i + 1])
    /\ patch_i' = patch_i + 1
    /\ UNCHANGED <<pc, patch_original, patch_diff, patch_lines, patch_result>>
    /\ UNCHANGED <<diffVars, sigVars, codeVars, snapVars, compareVars, aiVars, replayRestVars>>

\* the end of apply_diff: the joined lines are returned, or the IndexError of
\* the last iteration leaves the function
ReplayReturn ==
    /\ pc = "replaying"
    /\ patch_i = Len(patch_lines) \/ patch_st.raised
    /\ patch_result' = [raised |-> patch_st.raised,
                        value |-> IF patch_st.raised THEN << >>
                                  ELSE JoinLines(patch_st.result_lines)]
    /\ pc' = "replayed"
    /\ UNCHANGED <<patch_original, patch_diff, patch_lines, patch_i, patch_st, patch_prev>>
    /\ UNCHANGED <<diffVars, sigVars, codeVars, snapVars, compareVars, aiVars, replayRestVars>>

NextReplay == ReplayStart \/ ReplayLine \/ ReplayReturn

SpecReplay == InitReplay /\ [][NextReplay]_vars

\* the line by line replay returns what apply_diff returns
ReplayIsApplyDiff ==
    pc = "replayed" => patch_result = apply_diff(patch_original, patch_diff)

-----------------------------------------------------------------------------
(* Claims about the replay of a diff by apply_diff *)

\* the diff line handled last by the replay
LastLine == patch_lines[patch_i]

\* a line of the replay has been handled and LastLine names it
LineHandled == pc \in {"replaying", "replayed"} /\ patch_i >= 1

\* whether result_lines[line_idx] names a line of st: Python counts a negative
\* index from the end of the list
HasLineAtCursor(st) ==
    /\ st.line_idx < Len(st.result_lines)
    /\ st.line_idx >= 0 - Len(st.result_lines)

\* the 1-based position of that line
CursorPosition(st) ==
    IF st.line_idx < 0 THEN st.line_idx + Len(st.result_lines) + 1
    ELSE st.line_idx + 1

\* lst without its element at 1-based position k
WithoutLine(lst, k) == SubSeq(lst, 1, k - 1) \o SubSeq(lst, k + 1, Len(lst))

\* C22: for a '-' line apply_diff removes the line at the cursor only when that
\* line's text equals the text of the '-' line; on a mismatch, or when the
\* cursor is past the end, no line is removed, no error is raised, the cursor
\* does not move and the replay continues.
C22_DeletionOnlyOnMatch ==
    (LineHandled /\ StartsWith(LastLine, <<"-">>)) =>
        LET before == patch_prev
            matches == /\ HasLineAtCursor(before)
                       /\ before.result_lines[CursorPosition(before)] = Tail(LastLine)
        IN  /\ ~patch_st.raised
            /\ patch_st.line_idx = before.line_idx
            /\ patch_st.result_lines =
                   IF matches
                   THEN WithoutLine(before.result_lines, CursorPosition(before))
                   ELSE before.result_lines

\* the '-' lines that do not raise behave as C22 says
C22_DeletionWhenNotRaised ==
    (LineHandled /\ StartsWith(LastLine, <<"-">>) /\ ~patch_st.raised) =>
        LET before == patch_prev
            matches == /\ HasLineAtCursor(before)
                       /\ before.result_lines[CursorPosition(before)] = Tail(LastLine)
        IN  /\ patch_st.line_idx = before.line_idx
            /\ patch_st.result_lines =
                   IF matches
                   THEN WithoutLine(before.result_lines, CursorPosition(before))
                   ELSE before.result_lines

\* a '-' line raises exactly when the cursor is negative and names no line
C22_RaisedOnlyBeforeStart ==
    (LineHandled /\ StartsWith(LastLine, <<"-">>)) =>
        (patch_st.raised <=>
            (patch_prev.line_idx < 0 /\ ~HasLineAtCursor(patch_prev)))

\* whether lines[k] stands in a hunk whose header the pattern of apply_diff does
\* not match: the nearest '@@' line above it is such a header
RECURSIVE InMalformedHunk(_, _)
InMalformedHunk(lines, k) ==
    IF k <= 1 THEN FALSE
    ELSE IF StartsWith(lines[k - 1], <<"@", "@">>)
         THEN ~match_hunk_header(lines[k - 1]).matched
         ELSE InMalformedHunk(lines, k - 1)

\* C23: apply_diff never aborts: for every diff text it returns a string; and
\* the '+' and '-' lines of a hunk with a malformed header are skipped: they do
\* not modify the reconstructed text.
C23_NeverAborts ==
    /\ pc = "replayed" => ~patch_result.raised
    /\ (/\ LineHandled
        /\ StartsWith(LastLine, <<"+">>) \/ StartsWith(LastLine, <<"-">>)
        /\ InMalformedHunk(patch_lines, patch_i))
           => (~patch_st.raised /\ patch_st.result_lines = patch_prev.result_lines)

\* the first half of C23 alone: apply_diff returns a string
C23_ReturnsString == pc = "replayed" => ~patch_result.raised

\* the second half of C23 alone: the lines of a malformed hunk change nothing
C23_MalformedHunkSkipped ==
    (/\ LineHandled
     /\ ~patch_st.raised
     /\ StartsWith(LastLine, <<"+">>) \/ StartsWith(LastLine, <<"-">>)
     /\ InMalformedHunk(patch_lines, patch_i))
        => patch_st.result_lines = patch_prev.result_lines

\* whether the replay of one line skips it: a '@@' line the pattern does not
\* match, or a '-' line that removes nothing
SkipsLine(st, diff_line) ==
    IF StartsWith(diff_line, <<"@", "@">>)
    THEN ~match_hunk_header(diff_line).matched
    ELSE /\ StartsWith(diff_line, <<"-">>)
         /\ apply_line(st, diff_line).result_lines = st.result_lines

\* whether the replay of lines from st skips one of them
RECURSIVE ReplaySkips(_, _)
ReplaySkips(st, lines) ==
    IF lines = << >> \/ st.raised THEN FALSE
    ELSE \/ SkipsLine(st, Head(lines))
         \/ ReplaySkips(apply_line(st, Head(lines)), Tail(lines))

\* the replay that has returned skipped part of its diff
ReplaySkipped ==
    ReplaySkips([result_lines |-> SplitLines(patch_original),
                 line_idx |-> 0, raised |-> FALSE], patch_lines)

\* C24: when apply_diff skips part of a diff, the caller can detect that the
\* result may be incomplete: the outcome carries a warning signal, so it
\* differs from the outcome of a replay that skipped nothing, such as the
\* replay of the empty diff on the text returned.
C24_WarningSignal ==
    (pc = "replayed" /\ ReplaySkipped) =>
        patch_result # apply_diff(patch_result.value, << >>)

\* a replay that skips a line and returns a string returns the bare text
C24_BareText ==
    (pc = "replayed" /\ ReplaySkipped /\ ~patch_result.raised) =>
        patch_result = apply_diff(patch_result.value, << >>)

-----------------------------------------------------------------------------
(* Claims about the threshold of is_significant_change *)

\* two non-empty texts have been classified
ClassifiedNonEmpty == pc = "classified" /\ sig_old # << >> /\ sig_new # << >>

\* 1 - 2 * M / T > t in exact arithmetic, M and T being the matches and the
\* total length of the two texts and t the threshold
ExactlyAbove(old_content, new_content, t) ==
    LET r == ratio(old_content, new_content)
    IN  (r[2] - r[1]) * t[2] > t[1] * r[2]

\* 1 - 2 * M / T = t in exact arithmetic
ExactlyAt(old_content, new_content, t) ==
    LET r == ratio(old_content, new_content)
    IN  (r[2] - r[1]) * t[2] = t[1] * r[2]

\* C25: for non-empty inputs is_significant_change(old, new, t) is True exactly
\* when 1 - 2 * M / T > t, strictly: a change ratio exactly equal to the
\* threshold is not significant.
C25_StrictThreshold ==
    ClassifiedNonEmpty =>
        (significant <=> ExactlyAbove(sig_old, sig_new, threshold))

\* away from the boundary the result is the exact comparison
C25_StrictOffBoundary ==
    (ClassifiedNonEmpty /\ ~ExactlyAt(sig_old, sig_new, threshold)) =>
        (significant <=> ExactlyAbove(sig_old, sig_new, threshold))

\* a change ratio equal to the threshold was classified as significant
C25_BoundarySignificant ==
    /\ ClassifiedNonEmpty
    /\ ExactlyAt(sig_old, sig_new, threshold)
    /\ significant

\* a change ratio equal to the threshold was classified as not significant
C25_BoundaryNotSignificant ==
    /\ ClassifiedNonEmpty
    /\ ExactlyAt(sig_old, sig_new, threshold)
    /\ sig_old # sig_new
    /\ ~significant

-----------------------------------------------------------------------------
(* Claims about the line scanner of count_code_metrics *)

\* the lines of the counted text
ScannedLines == SplitLines(content)

\* the counters and the docstring state before the first line
ScanStart ==
    [blank_lines |-> 0, comment_lines |-> 0, docstring_lines |-> 0,
     function_count |-> 0, class_count |-> 0, import_count |-> 0,
     todo_count |-> 0, max_line_length |-> 0, in_docstring |-> FALSE,
     docstring_delimiter |-> << >>]

\* the counters and the docstring state before each of the lines and after the
\* last one: element k + 1 is the state after k lines
RECURSIVE ScanFrom(_, _)
ScanFrom(st, lines) ==
    IF lines = << >> THEN <<st>>
    ELSE <<st>> \o ScanFrom(count_line(st, Head(lines)), Tail(lines))

ScanStates == ScanFrom(ScanStart, ScannedLines)

\* whether a trimmed line starts with a triple quote
OpensDocstring(trimmed) ==
    StartsWith(trimmed, TripleDouble) \/ StartsWith(trimmed, TripleSingle)

\* the line that opened the docstring line k stands in, scan being ScanStates:
\* the last line before k that was read in the normal state and left the
\* docstring state
OpeningLine(scan, k) ==
    LET opened == {j \in 1..(k - 1) : /\ ~scan[j].in_docstring
                                      /\ scan[j + 1].in_docstring}
    IN  CHOOSE j \in opened : \A m \in opened : m <= j

\* the delimiter of that line: the first three characters of its trimmed text
OpeningDelimiter(lines, scan, k) == SubSeq(Strip(lines[OpeningLine(scan, k)]), 1, 3)

\* C26: the docstring scanner of count_code_metrics is a two-state machine.
\* In the normal state a non-blank line that starts with a triple quote counts
\* as a docstring line and enters the docstring state, unless the trimmed line
\* is longer than three characters and ends with the same delimiter.  In the
\* docstring state every non-blank line counts as a docstring line, and the
\* state is left only by a line that ends with the opening delimiter; the
\* other triple quote does not close it.  Blank lines count as blank and
\* never change the state.
C26_DocstringScanner ==
    (pc = "counted" /\ content # << >>) =>
        LET lines == ScannedLines
            scan == ScanFrom(ScanStart, lines)
        IN
        /\ metrics.docstring_lines = scan[Len(lines) + 1].docstring_lines
        /\ metrics.blank_lines = scan[Len(lines) + 1].blank_lines
        /\ \A k \in 1..Len(lines) :
               LET before == scan[k]
                   after == scan[k + 1]
                   trimmed == Strip(lines[k])
               IN  /\ trimmed = << >> =>
                          /\ after.blank_lines = before.blank_lines + 1
                          /\ after.docstring_lines = before.docstring_lines
                          /\ after.in_docstring = before.in_docstring
                   /\ trimmed # << >> => after.blank_lines = before.blank_lines
                   /\ (trimmed # << >> /\ ~before.in_docstring /\ OpensDocstring(trimmed)) =>
                          /\ after.docstring_lines = before.docstring_lines + 1
                          /\ after.in_docstring =
                                 ~(Len(trimmed) > 3
                                       /\ EndsWith(trimmed, SubSeq(trimmed, 1, 3)))
                   /\ (trimmed # << >> /\ ~before.in_docstring /\ ~OpensDocstring(trimmed)) =>
                          /\ after.docstring_lines = before.docstring_lines
                          /\ ~after.in_docstring
                   /\ (trimmed # << >> /\ before.in_docstring) =>
                          /\ after.docstring_lines = before.docstring_lines + 1
                          /\ after.in_docstring =
                                 ~EndsWith(trimmed, OpeningDelimiter(lines, scan, k))

\* C26 witness: a docstring opened by a line of three double quotes, not
\* closed by a line that ends with three single quotes, closed by a line that
\* ends with three double quotes
C26_Witness ==
    /\ pc = "counted"
    /\ Len(ScannedLines) = 3
    /\ Strip(ScannedLines[1]) = TripleDouble
    /\ EndsWith(Strip(ScannedLines[2]), TripleSingle)
    /\ EndsWith(Strip(ScannedLines[3]), TripleDouble)
    /\ ScanStates[2].in_docstring
    /\ ScanStates[3].in_docstring
    /\ ~ScanStates[4].in_docstring
    /\ metrics.docstring_lines = 3

\* the six counters a line may increment
LineCounters ==
    {"blank_lines", "docstring_lines", "comment_lines", "function_count",
     "class_count", "import_count"}

\* the counters of LineCounters that differ between two scan states
Incremented(before, after) == {c \in LineCounters : after[c] # before[c]}

\* C27: the classification is mutually exclusive per line: each line
\* increments at most one of blank_lines, docstring_lines, comment_lines,
\* function_count, class_count and import_count, so function_count +
\* class_count + import_count <= code_lines; a def, class or import inside a
\* docstring or on a comment line is not counted.
C27_OneCounterPerLine ==
    (pc = "counted" /\ content # << >>) =>
        LET lines == ScannedLines
            scan == ScanFrom(ScanStart, lines)
            final == scan[Len(lines) + 1]
        IN
        /\ \A c \in LineCounters : metrics[c] = final[c]
        /\ metrics.function_count + metrics.class_count + metrics.import_count
               <= metrics.code_lines
        /\ \A k \in 1..Len(lines) :
               LET before == scan[k]
                   after == scan[k + 1]
                   trimmed == Strip(lines[k])
                   counted == Incremented(before, after)
               IN  /\ Cardinality(counted) <= 1
                   /\ \A c \in counted : after[c] = before[c] + 1
                   /\ (before.in_docstring \/ OpensDocstring(trimmed)
                           \/ StartsWith(trimmed, <<"#">>)) =>
                          counted \cap {"function_count", "class_count",
                                        "import_count"} = {}

\* C27 witness: a comment line that holds a def, a line that opens a
\* docstring and a def line inside the docstring: no function is counted
C27_Witness ==
    /\ pc = "counted"
    /\ Len(ScannedLines) = 3
    /\ StartsWith(Strip(ScannedLines[1]), <<"#">>)
    /\ Contains(ScannedLines[1], <<"d", "e", "f">>)
    /\ Strip(ScannedLines[2]) = TripleDouble
    /\ matches_def(ScannedLines[3])
    /\ metrics.comment_lines = 1
    /\ metrics.docstring_lines = 2
    /\ metrics.function_count = 0
    /\ metrics.code_lines = 0

-----------------------------------------------------------------------------
(* Worker.run (src/ultis.py:657-704), run by the thread that run_in_thread   *)
(* starts (src/ultis.py:771-781)                                            *)

\* the runs of one Worker explored
MaxRuns == 2

\* the progress values fn reports in one run, at most
MaxProgress == 2

\* the exception classes fn raises
FnExceptions == {"ValueError", "KeyError", "KeyboardInterrupt"}

\* signal.emit(arg), as an entry of signals
Signal(name, arg) == [signal |-> name, arg |-> arg]

\* the except clause of run with every exception caught, KeyboardInterrupt
\* included
handle_exception_catch_all(emitted, c) ==
    [signals |-> Append(emitted, Signal("error", c)), escaped |-> ""]

\* "except Exception as e" for an exception of class c raised in the try
\* block: the error signal is emitted, or the exception leaves the clause
handle_exception(emitted, c) ==
    IF IsInstance(c, {"Exception"})
    THEN [signals |-> Append(emitted, Signal("error", c)), escaped |-> ""]
    ELSE [signals |-> emitted, escaped |-> c]

\* the number of entries of emitted for the signal name
Emitted(emitted, name) ==
    Cardinality({k \in 1..Len(emitted) : emitted[k].signal = name})

\* worker = Worker(fn): fn takes a progress_callback or not
InitWorker ==
    /\ pc = "worker"
    /\ run_pc = "created"
    /\ is_running = FALSE
    /\ signals = << >>
    /\ interruption = FALSE
    /\ fn_progress \in BOOLEAN
    /\ fn_outcome = ""
    /\ escaped = ""
    /\ runs = 0
    /\ DiffIdle /\ SigIdle /\ CodeIdle /\ SnapIdle /\ CompareIdle /\ AiIdle
    /\ WorkerRestIdle

\* run is entered: self._is_running = True
RunStart ==
    /\ pc = "worker"
    /\ run_pc \in {"created", "returned"}
    /\ runs < MaxRuns
    /\ is_running' = TRUE
    /\ signals' = << >>
    /\ fn_outcome' = ""
    /\ escaped' = ""
    /\ runs' = runs + 1
    /\ run_pc' = "try"
    /\ UNCHANGED <<pc, interruption, fn_progress>>
    /\ UNCHANGED <<diffVars, sigVars, codeVars, snapVars, compareVars, aiVars, workerRestVars>>

\* thread.requestInterruption(), by the cancel button or any other thread
RequestInterruption ==
    /\ pc = "worker"
    /\ ~interruption
    /\ interruption' = TRUE
    /\ UNCHANGED <<pc, run_pc, is_running, signals, fn_progress, fn_outcome, escaped, runs>>
    /\ UNCHANGED <<diffVars, sigVars, codeVars, snapVars, compareVars, aiVars, workerRestVars>>

\* the check of isInterruptionRequested() before fn is called
CheckInterruption ==
    /\ pc = "worker"
    /\ run_pc = "try"
    /\ IF interruption
       THEN /\ signals' = Append(signals, Signal("error", "InterruptedError"))
            /\ fn_outcome' = "not called"
            /\ run_pc' = "finally"
       ELSE /\ run_pc' = "calling"
            /\ UNCHANGED <<signals, fn_outcome>>
    /\ UNCHANGED <<pc, is_running, interruption, fn_progress, escaped, runs>>
    /\ UNCHANGED <<diffVars, sigVars, codeVars, snapVars, compareVars, aiVars, workerRestVars>>

\* fn calls its progress_callback, self.signals.progress.emit
FnProgress ==
    /\ pc = "worker"
    /\ run_pc = "calling"
    /\ fn_progress
    /\ Emitted(signals, "progress") < MaxProgress
    /\ signals' = Append(signals, Signal("progress", "value"))
    /\ UNCHANGED <<pc, run_pc, is_running, interruption, fn_progress, fn_outcome, escaped, runs>>
    /\ UNCHANGED <<diffVars, sigVars, codeVars, snapVars, compareVars, aiVars, workerRestVars>>

\* fn returns: self.signals.result.emit(result)
FnReturns ==
    /\ pc = "worker"
    /\ run_pc = "calling"
    /\ fn_outcome' = "returned"
    /\ signals' = Append(signals, Signal("result", "result"))
    /\ run_pc' = "finally"
    /\ UNCHANGED <<pc, is_running, interruption, fn_progress, escaped, runs>>
    /\ UNCHANGED <<diffVars, sigVars, codeVars, snapVars, compareVars, aiVars, workerRestVars>>

\* fn raises an exception of class c
FnRaises ==
    /\ pc = "worker"
    /\ run_pc = "calling"
    /\ \E c \in FnExceptions :
           /\ fn_outcome' = c
           /\ signals' = handle_exception(signals, c).signals
           /\ escaped' = handle_exception(signals, c).escaped
    /\ run_pc' = "finally"
    /\ UNCHANGED <<pc, is_running, interruption, fn_progress, runs>>
    /\ UNCHANGED <<diffVars, sigVars, codeVars, snapVars, compareVars, aiVars, workerRestVars>>

\* the finally clause: self._is_running = False, self.signals.finished.emit();
\* run then returns, or the exception that was not caught leaves it
Finally ==
    /\ pc = "worker"
    /\ run_pc = "finally"
    /\ is_running' = FALSE
    /\ signals' = Append(signals, Signal("finished", ""))
    /\ run_pc' = "returned"
    /\ UNCHANGED <<pc, interruption, fn_progress, fn_outcome, escaped, runs>>
    /\ UNCHANGED <<diffVars, sigVars, codeVars, snapVars, compareVars, aiVars, workerRestVars>>

\* the steps of the worker's thread
RunStep == CheckInterruption \/ FnProgress \/ FnReturns \/ FnRaises \/ Finally

NextWorker == RunStart \/ RequestInterruption \/ RunStep

SpecWorker == InitWorker /\ [][NextWorker]_vars

\* the worker's thread is scheduled until run ends, and fn ends
FairSpecWorker == SpecWorker /\ WF_vars(RunStep)

-----------------------------------------------------------------------------
(* Claims about Worker.run *)

\* a run has ended
RunEnded == pc = "worker" /\ run_pc = "returned"

\* finished was emitted once, as the last signal, and is_running() is False
FinishedLast ==
    /\ Emitted(signals, "finished") = 1
    /\ signals[Len(signals)].signal = "finished"
    /\ ~is_running

\* C28 as stated: every execution of Worker.run emits exactly one of the
\* signals result or error (never both, never neither), then emits finished
\* exactly once as its last signal, and is_running() is False afterwards; this
\* holds when the function returns, when it raises, and when the thread was
\* interrupted before the function started.
C28_OneOutcomeThenFinished ==
    RunEnded =>
        /\ Emitted(signals, "result") + Emitted(signals, "error") = 1
        /\ FinishedLast

\* C28, amended: a run in which fn returns, raises an exception that derives
\* from Exception, or is not called because the thread was interrupted, emits
\* exactly one of result or error; a run in which fn raises an exception that
\* does not derive from Exception (KeyboardInterrupt, SystemExit) emits
\* neither, and the exception leaves run.  In every case finished is emitted
\* exactly once, as the last signal, and is_running() is False afterwards;
\* before that finished is not emitted and is_running() is True.
C28_OutcomeUnlessNotException ==
    /\ RunEnded =>
           /\ FinishedLast
           /\ fn_outcome = "returned" =>
                  Emitted(signals, "result") = 1 /\ Emitted(signals, "error") = 0
           /\ fn_outcome = "not called" =>
                  Emitted(signals, "result") = 0 /\ Emitted(signals, "error") = 1
           /\ fn_outcome \in FnExceptions =>
                  IF "Exception" \in ExceptionBases[fn_outcome]
                  THEN /\ Emitted(signals, "result") = 0
                       /\ Emitted(signals, "error") = 1
                       /\ escaped = ""
                  ELSE /\ Emitted(signals, "result") = 0
                       /\ Emitted(signals, "error") = 0
                       /\ escaped = fn_outcome
    /\ (pc = "worker" /\ run_pc \in {"try", "calling", "finally"}) =>
           /\ is_running
           /\ Emitted(signals, "finished") = 0
           /\ Emitted(signals, "result") + Emitted(signals, "error") <= 1

\* C28 witness: the second run of a worker ended after an interruption, with
\* the signals error and finished
C28_Witness ==
    /\ RunEnded
    /\ runs = 2
    /\ fn_outcome = "not called"
    /\ signals = <<Signal("error", "InterruptedError"), Signal("finished", "")>>
    /\ ~is_running

\* a run in which fn raised KeyboardInterrupt ended with finished alone
C28_NeitherEmitted ==
    /\ RunEnded
    /\ fn_outcome = "KeyboardInterrupt"
    /\ signals = <<Signal("finished", "")>>

\* every run that is started ends
C28_RunEnds == (pc = "worker" /\ run_pc = "try") ~> RunEnded

-----------------------------------------------------------------------------
(* The callbacks of WindSurfAPIClient (src/api_client.py:103-128, 188-210).  *)
(* A notification runs in the thread of its caller (the file watcher's       *)
(* thread calls _notify_file_changed), so callbacks may be registered while  *)
(* its loop is under way.                                                    *)

\* the callbacks registered, at most
MaxCallbacks == 3

\* the keys of _callbacks
ClientEvents == {"file_changed", "file_saved", "editor_event"}

\* what a callback does when called: it returns ("") or raises an exception
\* of a class
CallbackRaises == {"", "ValueError", "KeyboardInterrupt"}

\* the except clause of a notification with no exception caught
except_clause_nothing_caught(c) == c

\* "except Exception as e" around the call of a callback that raised an
\* exception of class c, "" if it returned: the class that leaves the clause,
\* "" if none
except_clause(c) ==
    IF c = "" \/ IsInstance(c, {"Exception"}) THEN "" ELSE c

\* self._callbacks = {'file_changed': [], 'file_saved': [], 'editor_event': []}
InitClient ==
    /\ pc = "client"
    /\ callbacks = [e \in ClientEvents |-> << >>]
    /\ registered = 0
    /\ notify_pc = "idle"
    /\ notify_event = ""
    /\ notify_i = 0
    /\ notify_before = 0
    /\ invoked = << >>
    /\ notify_raised = ""
    /\ DiffIdle /\ SigIdle /\ CodeIdle /\ SnapIdle /\ CompareIdle /\ AiIdle
    /\ ClientRestIdle

\* self._callbacks[e].append(callback), the callback getting the next number
Register(e) ==
    /\ pc = "client"
    /\ registered < MaxCallbacks
    /\ \E r \in CallbackRaises :
           callbacks' = [callbacks EXCEPT
                             ![e] = Append(@, [id |-> registered + 1, raises |-> r])]
    /\ registered' = registered + 1
    /\ UNCHANGED <<pc, notify_pc, notify_event, notify_i, notify_before, invoked, notify_raised>>
    /\ UNCHANGED <<diffVars, sigVars, codeVars, snapVars, compareVars, aiVars, clientRestVars>>

on_file_changed == Register("file_changed")

on_file_saved == Register("file_saved")

on_editor_event == Register("editor_event")

\* a _notify method is entered: the loop over self._callbacks[e] starts
NotifyStart(e) ==
    /\ pc = "client"
    /\ notify_pc \in {"idle", "returned"}
    /\ notify_pc' = "loop"
    /\ notify_event' = e
    /\ notify_i' = 0
    /\ notify_before' = Len(callbacks[e])
    /\ invoked' = << >>
    /\ notify_raised' = ""
    /\ UNCHANGED <<pc, callbacks, registered>>
    /\ UNCHANGED <<diffVars, sigVars, codeVars, snapVars, compareVars, aiVars, clientRestVars>>

notify_file_changed == NotifyStart("file_changed")

notify_file_saved == NotifyStart("file_saved")

notify_editor_event == NotifyStart("editor_event")

\* one iteration of the loop: the next callback of the list is called, and an
\* exception it raises is logged or leaves the method
NotifyCall ==
    /\ pc = "client"
    /\ notify_pc = "loop"
    /\ notify_i < Len(callbacks[notify_event])
    /\ LET callback == callbacks[notify_event][notify_i + 1]
       IN  /\ invoked' = Append(invoked, callback.id)
           /\ notify_raised' = except_clause(callback.raises)
           /\ notify_pc' = IF except_clause(callback.raises) = "" THEN "loop"
                           ELSE "returned"
    /\ notify_i' = notify_i + 1
    /\ UNCHANGED <<pc, callbacks, registered, notify_event, notify_before>>
    /\ UNCHANGED <<diffVars, sigVars, codeVars, snapVars, compareVars, aiVars, clientRestVars>>

\* the list is exhausted: the method returns
NotifyReturn ==
    /\ pc = "client"
    /\ notify_pc = "loop"
    /\ notify_i >= Len(callbacks[notify_event])
    /\ notify_pc' = "returned"
    /\ UNCHANGED <<pc, callbacks, registered, notify_event, notify_i, notify_before, invoked,
                   notify_raised>>
    /\ UNCHANGED <<diffVars, sigVars, codeVars, snapVars, compareVars, aiVars, clientRestVars>>

NextClient ==
    \/ on_file_changed \/ on_file_saved \/ on_editor_event
    \/ notify_file_changed \/ notify_file_saved \/ notify_editor_event
    \/ NotifyCall \/ NotifyReturn

SpecClient == InitClient /\ [][NextClient]_vars

-----------------------------------------------------------------------------
(* Claims about the notifications of WindSurfAPIClient *)

\* a notification has ended
NotifyEnded == pc = "client" /\ notify_pc = "returned"

\* the numbers of the first n callbacks registered for the notified event, in
\* registration order
FirstRegistered(n) == [k \in 1..n |-> callbacks[notify_event][k].id]

\* C30 as stated: each notification invokes every callback registered for
\* that event exactly once, in registration order, even when an earlier
\* callback raises; the exception does not reach the notifier's caller and
\* callbacks registered for other events are not invoked.
C30_EveryCallbackOnce ==
    NotifyEnded =>
        /\ notify_raised = ""
        /\ Len(invoked) >= notify_before
        /\ Len(invoked) <= Len(callbacks[notify_event])
        /\ invoked = FirstRegistered(Len(invoked))

\* the position of the first callback of the notified event that raises an
\* exception not derived from Exception, 0 if there is none
FirstNotException ==
    LET cbs == callbacks[notify_event]
        at == {k \in 1..Len(cbs) :
                   cbs[k].raises # "" /\ "Exception" \notin ExceptionBases[cbs[k].raises]}
    IN  IF at = {} THEN 0 ELSE CHOOSE k \in at : \A m \in at : k <= m

\* C30, amended: a notification calls the callbacks registered for its event
\* once each, in registration order, and no callback of another event; a
\* callback that raises an exception derived from Exception does not stop it,
\* and that exception does not reach the caller.  A callback that raises an
\* exception not derived from Exception (KeyboardInterrupt, SystemExit) is the
\* last one called: the exception reaches the caller and the callbacks
\* registered after it are not called.
C30_OnceUnlessNotException ==
    /\ (pc = "client" /\ notify_pc \in {"loop", "returned"}) =>
           /\ Len(invoked) <= Len(callbacks[notify_event])
           /\ invoked = FirstRegistered(Len(invoked))
    /\ NotifyEnded =>
           IF FirstNotException = 0 \/ FirstNotException > Len(invoked)
           THEN notify_raised = "" /\ Len(invoked) >= notify_before
           ELSE /\ Len(invoked) = FirstNotException
                /\ notify_raised = callbacks[notify_event][FirstNotException].raises

\* C30 witness: a notification ended after calling the two callbacks of its
\* event, the first of which raised ValueError, and not the callback of
\* another event
C30_Witness ==
    /\ NotifyEnded
    /\ Len(callbacks[notify_event]) = 2
    /\ callbacks[notify_event][1].raises = "ValueError"
    /\ \E e \in ClientEvents \ {notify_event} : Len(callbacks[e]) = 1
    /\ invoked = FirstRegistered(2)
    /\ notify_raised = ""

\* a notification was ended by the KeyboardInterrupt of its first callback,
\* a second callback being registered for the event
C30_SecondNotCalled ==
    /\ NotifyEnded
    /\ notify_before = 2
    /\ Len(invoked) = 1
    /\ notify_raised = "KeyboardInterrupt"

-----------------------------------------------------------------------------
(* The utilities together: one scenario per function *)

Init ==
    \/ InitDiff \/ InitSignificant \/ InitMetrics \/ InitSmells
    \/ InitSnapshot \/ InitCompare \/ InitRetry \/ InitCache \/ InitLocal
    \/ InitKanban \/ InitReplay \/ InitWorker \/ InitClient

Next ==
    \/ NextDiff \/ NextSignificant \/ NextMetrics \/ NextSmells
    \/ NextSnapshot \/ NextCompare \/ NextRetry \/ NextCache \/ NextLocal
    \/ NextKanban \/ NextReplay \/ NextWorker \/ NextClient

Spec == Init /\ [][Next]_vars

=============================================================================
